---- MODULE Spec2Model ----
(***************************************************************************)
(* A model of the Fastbuild generator of CMake: the dependency ledger      *)
(* (MapFastbuildInfoTargets), the readiness scheduler built on it          *)
(* (CanTreatTargetFB, TargetTreatedFinish, DecrementNbDepsTargetUnexist,   *)
(* lastChanceToTreatTargets), the per-target entry point Generate, and the *)
(* object grouping of WriteObjectListsFB.                                  *)
(*                                                                         *)
(* A std::string is a sequence of one-character strings, so that the name  *)
(* functions are computed character by character as the code does.         *)
(***************************************************************************)
EXTENDS Integers, Sequences, FiniteSets, TLC

\* ------------------------------------------------------------------ bounds

\* Longest list of link dependency paths a target of the model has.
MaxDeps == 2

\* Cap on the number of WriteTargetFB invocations of one pass; a pass of the
\* model's three targets needs at most three.
MaxWriteCalls == 5

\* Longest list of object sources a target of the model has.
MaxSources == 4

\* Longest string in front of the ending of a path the name functions are
\* called with.
MaxPrefixLen == 3

\* ----------------------------------------------------------------- strings

\* The characters of the model in the order of their character codes, which is
\* the order std::map<std::string, ...> keeps its keys in.
CharOrder ==
  <<" ", "\"", "'", "-", ".", "/", "0", "1", "2", "3", "4", "5", "6", "7",
    "8", "9", "A", "B", "C", "D", "E", "F", "G", "H", "I", "J", "K", "L",
    "M", "N", "O", "P", "Q", "R", "S", "T", "U", "V", "W", "X", "Y", "Z",
    "\\", "_", "a", "b", "c", "d", "e", "f", "g", "h", "i", "j", "k", "l",
    "m", "n", "o", "p", "q", "r", "s", "t", "u", "v", "w", "x", "y", "z">>

Ord(c) == CHOOSE i \in 1..Len(CharOrder) : CharOrder[i] = c

\* s < t for two std::string
StrLess(s, t) ==
  \E i \in 1..Len(t) :
     /\ \A j \in 1..(i - 1) : j <= Len(s) /\ s[j] = t[j]
     /\ \/ i = Len(s) + 1
        \/ i <= Len(s) /\ Ord(s[i]) < Ord(t[i])

\* The strings of a set in increasing order: the iteration order of a std::map
\* whose keys are the set.
RECURSIVE SortedSeq(_)
SortedSeq(S) ==
  IF S = {} THEN <<>>
  ELSE LET m == CHOOSE x \in S : \A y \in S \ {x} : StrLess(x, y)
       IN <<m>> \o SortedSeq(S \ {m})

SeqToSet(s) == {s[i] : i \in 1..Len(s)}

\* s.rfind(c): the last index (from 1) of c in s, 0 for npos
RFind(s, c) ==
  IF \E i \in 1..Len(s) : s[i] = c
  THEN CHOOSE i \in 1..Len(s) : s[i] = c /\ \A j \in (i + 1)..Len(s) : s[j] # c
  ELSE 0

\* s.find(c): the first index (from 1) of c in s, 0 for npos
Find(s, c) ==
  IF \E i \in 1..Len(s) : s[i] = c
  THEN CHOOSE i \in 1..Len(s) : s[i] = c /\ \A j \in 1..(i - 1) : s[j] # c
  ELSE 0

\* s.substr(pos) with pos counted from 0
SubstrFrom(s, pos) == SubSeq(s, pos + 1, Len(s))

\* s.substr(0, n)
SubstrTo(s, n) == SubSeq(s, 1, n)

\* ------------------------------------------------------- name normalisation

\* GetNameFile: the file name without directories and without what follows
\* its first '.'
GetNameFile(namePathFile) ==
  LET found1 == RFind(namePathFile, "/")
      found2 == RFind(namePathFile, "\\")
      \* found is a 0-based position; RFind gives 1-based indexes, 0 for npos
      found == IF found1 # 0 /\ found2 = 0 THEN (found1 - 1) + 1
               ELSE IF found1 = 0 /\ found2 # 0 THEN (found2 - 1) + 1
               ELSE IF found1 # 0 /\ found2 # 0
                    THEN (IF found1 < found2 THEN found2 - 1 ELSE found1 - 1)
               ELSE 0
      nameFile == SubstrFrom(namePathFile, found)
      found_point == Find(nameFile, ".")
  IN IF found_point # 0 THEN SubstrTo(nameFile, found_point - 1) ELSE nameFile

\* RemoveDuplicateName with the duplicates kept: a duplicate-preserving variant.
RemoveDuplicateName_keep(listName) == listName

\* RemoveDuplicateName: the names are the keys of a std::map, read back in key
\* order.
RemoveDuplicateName(listName) == SortedSeq(SeqToSet(listName))

\* GetNameDepsTargets: gt.linkDeps is what ComputeLinkDeps returns for the
\* target and the configuration.
GetNameDepsTargets(gt, config) ==
  RemoveDuplicateName([i \in 1..Len(gt.linkDeps) |->
                         GetNameFile(gt.linkDeps[i]) \o config])

\* ------------------------------------------------------------------ ledger

\* The configuration of the pass.
Config == <<"r">>

\* The state the scheduler's functions act on:
\*   map      MapFastbuildInfoTargets, key |-> cmFastbuildInfoTarget
\*   trace    what happened so far, in order (see the variable trace)
\*   calls    the number of WriteTargetFB invocations
\*   overflow the cap MaxWriteCalls was hit
\*   error    cmSystemTools' error flag
NoEntries == [k \in {} |-> 0]

\* GetNumberUntratedDepsTarget without the branch for names that have no entry.
GetNumberUntratedDepsTarget_registeredOnly(map, target_name, name_target_deps) ==
  Cardinality({i \in 1..Len(name_target_deps) :
                 /\ name_target_deps[i] # target_name
                 /\ name_target_deps[i] \in DOMAIN map
                 /\ ~map[name_target_deps[i]].is_treated})

\* GetNumberUntratedDepsTarget without the test against the target's own name.
GetNumberUntratedDepsTarget_countSelf(map, target_name, name_target_deps) ==
  Cardinality({i \in 1..Len(name_target_deps) :
                 \/ name_target_deps[i] \notin DOMAIN map
                 \/ ~map[name_target_deps[i]].is_treated})

\* GetNumberUntratedDepsTarget: one for every list element, other than the
\* target's own name, that has no entry or has an entry that is not treated.
GetNumberUntratedDepsTarget(map, target_name, name_target_deps) ==
  Cardinality({i \in 1..Len(name_target_deps) :
                 /\ name_target_deps[i] # target_name
                 /\ \/ name_target_deps[i] \notin DOMAIN map
                    \/ ~map[name_target_deps[i]].is_treated})

\* AddFastbuildInfoTarget without the test for an entry of the key: the entry
\* of the call replaces the one the key has.
AddFastbuildInfoTarget_overwrite(S, gt, name_target_deps, config) ==
  LET target_name == gt.name \o config
      fbt == [is_treated |-> FALSE,
              config |-> config,
              name_target_deps |-> name_target_deps,
              number_untrated_deps |->
                GetNumberUntratedDepsTarget(S.map, target_name, name_target_deps),
              gt |-> gt]
  IN [S EXCEPT !.map = (target_name :> fbt) @@ S.map,
               !.trace = Append(@, <<"Add", target_name,
                                     fbt.number_untrated_deps>>)]

\* AddFastbuildInfoTarget that stores the dependency list of a later call in
\* the entry the key has.
AddFastbuildInfoTarget_updateDeps(S, gt, name_target_deps, config) ==
  LET target_name == gt.name \o config
      fbt == [is_treated |-> FALSE,
              config |-> config,
              name_target_deps |-> name_target_deps,
              number_untrated_deps |->
                GetNumberUntratedDepsTarget(S.map, target_name, name_target_deps),
              gt |-> gt]
  IN IF target_name \notin DOMAIN S.map
     THEN [S EXCEPT !.map = S.map @@ (target_name :> fbt),
                    !.trace = Append(@, <<"Add", target_name,
                                          fbt.number_untrated_deps>>)]
     ELSE [S EXCEPT !.map[target_name].name_target_deps = name_target_deps]

\* AddFastbuildInfoTarget: a new entry, unless the key has one.
AddFastbuildInfoTarget(S, gt, name_target_deps, config) ==
  LET target_name == gt.name \o config
      fbt == [is_treated |-> FALSE,
              config |-> config,
              name_target_deps |-> name_target_deps,
              number_untrated_deps |->
                GetNumberUntratedDepsTarget(S.map, target_name, name_target_deps),
              gt |-> gt]
  IN IF target_name \notin DOMAIN S.map
     THEN [S EXCEPT !.map = S.map @@ (target_name :> fbt),
                    !.trace = Append(@, <<"Add", target_name,
                                          fbt.number_untrated_deps>>)]
     ELSE S

\* The entries std::map::operator[] can insert for a key that has none: a
\* cmFastbuildInfoTarget that no code of the generator has filled in.  Its
\* strings and its list are empty and its target is null; what its count and
\* its flag hold depends on the declaration of the structure (zero and false
\* when it declares no constructor), so every small value stands for them.
DefaultEntries ==
  [is_treated : BOOLEAN,
   config : {<<>>},
   name_target_deps : {<<>>},
   number_untrated_deps : {-1, 0, 1},
   gt : {[name |-> <<>>, lang |-> <<>>, linkDeps |-> <<>>]}]

\* MapFastbuildInfoTargets[key] as CanTreatTargetFB and TargetTreatedFinish
\* write it: the ledger after std::map::operator[], which inserts the entry
\* fresh under a key that has none.
MapSubscript(map, key, fresh) ==
  IF key \in DOMAIN map THEN map ELSE map @@ (key :> fresh)

\* CanTreatTargetFB without the test of is_treated.
CanTreatTargetFB_countOnly(map, gt, config) ==
  LET target_name == gt.name \o config
  IN ~(map[target_name].number_untrated_deps > 0)

\* CanTreatTargetFB, for a key that has an entry (every call of a pass).
CanTreatTargetFB(map, gt, config) ==
  LET target_name == gt.name \o config
  IN ~(map[target_name].number_untrated_deps > 0 \/ map[target_name].is_treated)

\* The number of elements of a list equal to name.
Occurrences(list, name) == Cardinality({i \in 1..Len(list) : list[i] = name})

\* One sweep step of DecrementNbDepsTargetUnexist, for the entry at keys[i].
RECURSIVE DecrementLoop(_, _, _)
DecrementLoop(S, keys, i) ==
  IF i > Len(keys) THEN S
  ELSE LET fit == S.map[keys[i]]
           unexist == SelectSeq(fit.name_target_deps,
                                LAMBDA n : n \notin DOMAIN S.map)
           S1 == IF ~fit.is_treated
                 THEN [S EXCEPT
                         !.map[keys[i]].number_untrated_deps = @ - Len(unexist),
                         !.trace = @ \o [j \in 1..Len(unexist) |->
                                           <<"unexist", keys[i], unexist[j]>>]]
                 ELSE S
       IN DecrementLoop(S1, keys, i + 1)

\* DecrementNbDepsTargetUnexist that sweeps nothing.
DecrementNbDepsTargetUnexist_skip(S) == S

\* DecrementNbDepsTargetUnexist: every entry that is not treated loses one for
\* each name of its list that has no entry.
DecrementNbDepsTargetUnexist(S) ==
  DecrementLoop([S EXCEPT !.trace = Append(@, <<"sweep">>)],
                SortedSeq(DOMAIN S.map), 1)

RECURSIVE Generate(_, _, _)
RECURSIVE WriteTargetFB(_, _, _)
RECURSIVE TargetTreatedFinish(_, _, _)
RECURSIVE TreatedLoop(_, _, _, _)

\* The body of the loop of TargetTreatedFinish for the entry at keys[i]: the
\* decrements of that entry, then its generation if it can be treated.
TreatedLoop(S, target_name, keys, i) ==
  IF i > Len(keys) THEN S
  ELSE LET first == keys[i]
           second == S.map[first]
           n == Occurrences(second.name_target_deps, target_name)
           S1 == [S EXCEPT
                    !.map[first].number_untrated_deps = @ - n,
                    !.trace = @ \o [j \in 1..n |-> <<"dec", first, target_name>>]]
           S2 == IF CanTreatTargetFB(S1.map, second.gt, S1.map[first].config)
                 THEN Generate(S1, S1.map[first].gt, S1.map[first].config)
                 ELSE S1
       IN TreatedLoop(S2, target_name, keys, i + 1)

\* The decrements of a TargetTreatedFinish in two passes: all of them first.
RECURSIVE DecrementAllLoop(_, _, _, _)
DecrementAllLoop(S, target_name, keys, i) ==
  IF i > Len(keys) THEN S
  ELSE LET first == keys[i]
           n == Occurrences(S.map[first].name_target_deps, target_name)
           S1 == [S EXCEPT
                    !.map[first].number_untrated_deps = @ - n,
                    !.trace = @ \o [j \in 1..n |-> <<"dec", first, target_name>>]]
       IN DecrementAllLoop(S1, target_name, keys, i + 1)

\* The scan of a TargetTreatedFinish in two passes: the generation of every
\* entry that can be treated, after all the decrements.
RECURSIVE ScanLoop(_, _, _)
ScanLoop(S, keys, i) ==
  IF i > Len(keys) THEN S
  ELSE LET second == S.map[keys[i]]
           S1 == IF CanTreatTargetFB(S.map, second.gt, second.config)
                 THEN Generate(S, second.gt, second.config)
                 ELSE S
       IN ScanLoop(S1, keys, i + 1)

\* TargetTreatedFinish in two passes over the ledger: the decrements of every
\* entry, then the scan.
TargetTreatedFinish_twoPasses(S, gt, config) ==
  LET target_name == gt.name \o config
      S1 == [S EXCEPT !.map[target_name].is_treated = TRUE,
                      !.trace = Append(@, <<"treated", target_name>>)]
      keys == SortedSeq(DOMAIN S1.map)
  IN ScanLoop(DecrementAllLoop(S1, target_name, keys, 1), keys, 1)

\* TargetTreatedFinish that leaves is_treated as it is.
TargetTreatedFinish_noMark(S, gt, config) ==
  LET target_name == gt.name \o config
      S1 == [S EXCEPT !.trace = Append(@, <<"treated", target_name>>)]
  IN TreatedLoop(S1, target_name, SortedSeq(DOMAIN S1.map), 1)

\* TargetTreatedFinish: the entry is treated, then the loop over the ledger.
TargetTreatedFinish(S, gt, config) ==
  LET target_name == gt.name \o config
      S1 == [S EXCEPT !.map[target_name].is_treated = TRUE,
                      !.trace = Append(@, <<"treated", target_name>>)]
  IN TreatedLoop(S1, target_name, SortedSeq(DOMAIN S1.map), 1)

\* WriteTargetFB that calls TargetTreatedFinish before the blocks of the
\* target's type are written.
WriteTargetFB_finishEarly(S, gt, config) ==
  LET target_name == gt.name \o config
  IN IF S.calls >= MaxWriteCalls THEN [S EXCEPT !.overflow = TRUE]
     ELSE LET S1 == [S EXCEPT !.calls = @ + 1,
                              !.trace = @ \o <<<<"WriteTargetFB", target_name>>,
                                               <<"block", target_name>>>>]
              S2 == TargetTreatedFinish(S1, gt, config)
          IN [S2 EXCEPT !.trace = @ \o <<<<"block", target_name>>,
                                         <<"return", target_name>>>>]

\* WriteTargetFB: the blocks of the target, then TargetTreatedFinish.  The
\* invocation writes the compiler block of WriteCompileFB and then the blocks
\* of the target's type (object lists, executable or library), or its section
\* header: two "block" events.
WriteTargetFB(S, gt, config) ==
  LET target_name == gt.name \o config
  IN IF S.calls >= MaxWriteCalls THEN [S EXCEPT !.overflow = TRUE]
     ELSE LET S1 == [S EXCEPT !.calls = @ + 1,
                              !.trace = @ \o <<<<"WriteTargetFB", target_name>>,
                                               <<"block", target_name>>,
                                               <<"block", target_name>>>>]
              S2 == TargetTreatedFinish(S1, gt, config)
          IN [S2 EXCEPT !.trace = Append(@, <<"return", target_name>>)]

\* Generate without the return that follows the error.
Generate_noReturn(S, gt, config) ==
  LET S0 == IF gt.lang = <<>>
            THEN [S EXCEPT !.error = TRUE,
                           !.trace = Append(@, <<"Error", gt.name>>)]
            ELSE S
      S1 == AddFastbuildInfoTarget(
              [S0 EXCEPT !.trace = Append(@, <<"statements", gt.name \o config>>)],
              gt, GetNameDepsTargets(gt, config), config)
  IN IF CanTreatTargetFB(S1.map, gt, config)
     THEN WriteTargetFB(S1, gt, config)
     ELSE S1

\* cmFastbuildNormalTargetGenerator::Generate: the error for a target without
\* linker language, else the rules and build statements of the target, the
\* registration and, if the target can be treated, its generation.
Generate(S, gt, config) ==
  IF gt.lang = <<>>
  THEN [S EXCEPT !.error = TRUE, !.trace = Append(@, <<"Error", gt.name>>)]
  ELSE LET S0 == [S EXCEPT
                    !.trace = Append(@, <<"statements", gt.name \o config>>)]
           S1 == AddFastbuildInfoTarget(S0, gt, GetNameDepsTargets(gt, config),
                                        config)
       IN IF CanTreatTargetFB(S1.map, gt, config)
          THEN WriteTargetFB(S1, gt, config)
          ELSE S1

\* The loop of lastChanceToTreatTargets for the entry at keys[i].
RECURSIVE LastChanceLoop(_, _, _)
LastChanceLoop(S, keys, i) ==
  IF i > Len(keys) THEN S
  ELSE LET second == S.map[keys[i]]
           S0 == [S EXCEPT !.trace = Append(@, <<"lastChance", keys[i]>>)]
           S1 == IF ~second.is_treated
                    /\ CanTreatTargetFB(S0.map, second.gt, second.config)
                 THEN Generate(S0, S0.map[keys[i]].gt, S0.map[keys[i]].config)
                 ELSE S0
       IN LastChanceLoop(S1, keys, i + 1)

\* lastChanceToTreatTargets that sweeps after its loop.
lastChanceToTreatTargets_sweepLast(S) ==
  DecrementNbDepsTargetUnexist(LastChanceLoop(S, SortedSeq(DOMAIN S.map), 1))

\* lastChanceToTreatTargets: the sweep of the names without entry, then the
\* generation of every entry that can be treated.
lastChanceToTreatTargets(S) ==
  LET S1 == DecrementNbDepsTargetUnexist(S)
  IN LastChanceLoop(S1, SortedSeq(DOMAIN S1.map), 1)

\* PrintAllTargetWithNbDeps without the test of is_treated.
PrintAllTargetWithNbDeps_all(map) ==
  LET keys == SortedSeq(DOMAIN map)
  IN [i \in 1..Len(keys) |->
        [name |-> keys[i],
         nb_deps |-> map[keys[i]].number_untrated_deps,
         deps |-> map[keys[i]].name_target_deps]]

\* PrintAllTargetWithNbDeps: one warning for every entry that is not treated,
\* with its key, its count and its dependency names.
PrintAllTargetWithNbDeps(map) ==
  LET keys == SortedSeq({k \in DOMAIN map : ~map[k].is_treated})
  IN [i \in 1..Len(keys) |->
        [name |-> keys[i],
         nb_deps |-> map[keys[i]].number_untrated_deps,
         deps |-> map[keys[i]].name_target_deps]]

\* ------------------------------------------------------------ object lists

\* GetPath without the '/' at the end of its result.
GetPath_noSlash(fullPath) ==
  LET found == RFind(fullPath, "/")
  IN IF found # 0 THEN SubstrTo(fullPath, found - 1) ELSE <<>>

\* GetPath: the path up to and with its last '/', empty without one.
GetPath(fullPath) ==
  LET found == RFind(fullPath, "/")
  IN IF found # 0 THEN SubstrTo(fullPath, found) ELSE <<>>

\* RemoveBackslashBeforeDoubleRib: while the string holds a backslash followed
\* by a double quote, the first such backslash is removed.
RECURSIVE RemoveBackslashBeforeDoubleRib(_)
RemoveBackslashBeforeDoubleRib(str) ==
  LET at == {i \in 1..(Len(str) - 1) : str[i] = "\\" /\ str[i + 1] = "\""}
  IN IF at = {} THEN str
     ELSE LET found == CHOOSE i \in at : \A j \in at : i <= j
          IN RemoveBackslashBeforeDoubleRib(
               SubSeq(str, 1, found - 1) \o SubSeq(str, found + 1, Len(str)))

\* The compiler options WriteObjectListsFB computes for a source: its flags,
\* its defines between two spaces (without the backslashes before double quotes
\* for GNU and Clang), its includes.
ComputeOptions(sf, compilerId) ==
  LET defines == <<" ">> \o sf.defines \o <<" ">>
  IN sf.flags
       \o (IF compilerId \in {"GNU", "Clang"}
           THEN RemoveBackslashBeforeDoubleRib(defines) ELSE defines)
       \o sf.includes

\* The running values of the loop of WriteObjectListsFB and the calls of
\* WriteObjectListFB made so far.
ObjectStart(objectSources, compilerId) ==
  [compilerOptions |-> IF objectSources # <<>>
                       THEN ComputeOptions(objectSources[1], compilerId)
                       ELSE <<>>,
   output_object_path |-> IF objectSources # <<>>
                          THEN GetPath(GetPath(objectSources[1].object))
                          ELSE <<>>,
   extension |-> IF objectSources # <<>> THEN objectSources[1].ext ELSE <<>>,
   nbObjectList |-> 1,
   objectList |-> <<>>,
   written |-> <<>>]

\* The call WriteObjectListFB(config, language, <objectList_name>_<n>,
\* objectList, compilerOptions, output_object_path, extension).
WriteObjectListFB(ctx) ==
  Append(ctx.written,
         [number |-> ctx.nbObjectList,
          objectList |-> ctx.objectList,
          compilerOptions |-> ctx.compilerOptions,
          output_path |-> ctx.output_object_path,
          extension |-> ctx.extension])

\* The loop body without the update of the running values after the test.
ObjectStep_staleSettings(ctx, sf, compilerId) ==
  LET compilerOptionsTemp == ComputeOptions(sf, compilerId)
      output_object_path_temp == GetPath(sf.object)
      extension_temp == sf.ext
      flushed ==
        IF \/ ctx.compilerOptions # compilerOptionsTemp
           \/ ctx.output_object_path # output_object_path_temp
           \/ extension_temp # ctx.extension
        THEN [ctx EXCEPT !.written = WriteObjectListFB(ctx),
                         !.objectList = <<>>,
                         !.nbObjectList = @ + 1]
        ELSE ctx
  IN [flushed EXCEPT
        !.objectList = Append(@, <<"\"">> \o sf.fullPath \o <<"\"">>)]

\* The loop body without the test of the output path and of the extension.
ObjectStep_optionsOnly(ctx, sf, compilerId) ==
  LET compilerOptionsTemp == ComputeOptions(sf, compilerId)
      flushed ==
        IF ctx.compilerOptions # compilerOptionsTemp
        THEN [ctx EXCEPT !.written = WriteObjectListFB(ctx),
                         !.objectList = <<>>,
                         !.nbObjectList = @ + 1]
        ELSE ctx
  IN [flushed EXCEPT
        !.compilerOptions = compilerOptionsTemp,
        !.output_object_path = GetPath(sf.object),
        !.extension = sf.ext,
        !.objectList = Append(@, <<"\"">> \o sf.fullPath \o <<"\"">>)]

\* The body of the loop of WriteObjectListsFB for the source sf: the list
\* collected so far is written when sf differs from the running values, then
\* sf joins the list and its values become the running ones.
ObjectStep(ctx, sf, compilerId) ==
  LET compilerOptionsTemp == ComputeOptions(sf, compilerId)
      output_object_path_temp == GetPath(sf.object)
      extension_temp == sf.ext
      flushed ==
        IF \/ ctx.compilerOptions # compilerOptionsTemp
           \/ ctx.output_object_path # output_object_path_temp
           \/ extension_temp # ctx.extension
        THEN [ctx EXCEPT !.written = WriteObjectListFB(ctx),
                         !.objectList = <<>>,
                         !.nbObjectList = @ + 1]
        ELSE ctx
  IN [flushed EXCEPT
        !.compilerOptions = compilerOptionsTemp,
        !.output_object_path = output_object_path_temp,
        !.extension = extension_temp,
        !.objectList = Append(@, <<"\"">> \o sf.fullPath \o <<"\"">>)]

RECURSIVE ObjectLoop(_, _, _, _)
ObjectLoop(ctx, objectSources, compilerId, i) ==
  IF i > Len(objectSources) THEN ctx
  ELSE ObjectLoop(ObjectStep(ctx, objectSources[i], compilerId),
                  objectSources, compilerId, i + 1)

\* WriteObjectListsFB: the calls of WriteObjectListFB it makes, in order; the
\* last list is written after the loop.
WriteObjectListsFB(objectSources, compilerId) ==
  WriteObjectListFB(
    ObjectLoop(ObjectStart(objectSources, compilerId), objectSources,
               compilerId, 1))

\* ------------------------------------------------------------- the pass

VARIABLES
  MapFastbuildInfoTargets, \* the ledger: key |-> cmFastbuildInfoTarget
  trace,        \* the calls and writes of the pass so far, in order:
                \*   <<"Add", key, count>>     an entry was created with this count
                \*   <<"WriteTargetFB", key>>  WriteTargetFB was entered
                \*   <<"block", key>>          its blocks were written to the stream
                \*   <<"treated", key>>        TargetTreatedFinish set is_treated
                \*   <<"dec", entry, key>>     TargetTreatedFinish(key) decremented entry
                \*   <<"unexist", entry, name>> the sweep decremented entry for name
                \*   <<"return", key>>         WriteTargetFB returned
                \*   <<"Error", name>>         the error for a missing linker language
                \*   <<"statements", key>>     Generate wrote the rules and build statements
                \*   <<"sweep">>               DecrementNbDepsTargetUnexist was entered
                \*   <<"lastChance", key>>     lastChanceToTreatTargets reached the entry
  calls,        \* number of WriteTargetFB invocations of the pass
  overflow,     \* the cap MaxWriteCalls was hit
  errorOccured, \* cmSystemTools::GetErrorOccuredFlag()
  visited,      \* the names of the targets whose Generate the pass has called
  phase,        \* "targets": cmGlobalGenerator::Generate is running; "done"
  warnings,     \* what PrintAllTargetWithNbDeps wrote
  failbit,      \* the streams were put in the failed state
  objectSources, \* the object sources of the target WriteObjectListsFB is called for
  compilerId,   \* its compiler id
  objectLists,  \* the calls of WriteObjectListFB that WriteObjectListsFB made
  objWritten,   \* WriteObjectListsFB has returned
  probe         \* the single call of a ledger function that was looked at:
                \*   op, its arguments, the ledger and the trace before the
                \*   call, and what the call returned

passVars ==
  <<MapFastbuildInfoTargets, trace, calls, overflow, errorOccured, visited,
    phase, warnings, failbit>>

objVars == <<objectSources, compilerId, objectLists, objWritten>>

VARIABLES
  project,        \* the targets of the project whose files are written: for
                  \*   each name its type and linker language, and which target
                  \*   links which
  IsMultiConfig,  \* cmGlobalFastbuildGenerator::IsMultiConfig()
  GeneratorConfigs, \* the configurations the project is generated for
  MapCompilersFB, \* the languages whose Compiler block is backed up as written
  linePrefix,     \* the indentation of the lines written next
  closingScope,   \* the closing characters of the scopes that are open
  written,        \* what the writing functions did so far, in order:
                  \*   <<"Compiler", language>>  the Compiler block of a language
                  \*   <<"push", linePrefix, closingScope>>  WritePushScope, with
                  \*        the two strings as it left them
                  \*   <<"pop", closer, linePrefix, closingScope>>  WritePopScope
                  \*        wrote closer, and the two strings as it left them
                  \*   <<"assert">>  WritePopScope was called with an empty
                  \*        linePrefix
                  \*   <<"Alias", stream, name, targets>>  WriteAliasFB
                  \*   <<"return", function, linePrefix, closingScope>>
  TargetAliasesFB,        \* alias |-> [Config, ListDeps, ExcludeFromAll]
  TargetAliasesOrderedFB  \* the aliases in the order of their registration

writeVars ==
  <<project, IsMultiConfig, GeneratorConfigs, MapCompilersFB, linePrefix,
    closingScope, written, TargetAliasesFB, TargetAliasesOrderedFB>>

vars == <<passVars, objVars, probe, writeVars>>

\* The names of the targets a project of the model can have.
Names == {<<"a">>, <<"b">>, <<"c">>}

\* The linker languages of a target; the empty one is the missing language.
Langs == {<<"C">>, <<>>}

\* The link dependency paths of the model: the library files of the three
\* targets and a library that no target of the project builds.
DepPaths ==
  {<<"x", "/", "a", ".", "l", "i", "b">>,
   <<"x", "\\", "b", ".", "l", "i", "b">>,
   <<"c", ".", "l", "i", "b">>,
   <<"e", ".", "l", "i", "b">>}

\* The lists ComputeLinkDeps can return in the model, one for each multiset of
\* paths: GetNameDepsTargets hands the list to RemoveDuplicateName, which sorts
\* it, so the ledger never sees the order of the paths.
DepLists ==
  {l \in UNION {[1..n -> DepPaths] : n \in 0..MaxDeps} :
     \A i \in 1..Len(l) : \A j \in (i + 1)..Len(l) : ~StrLess(l[j], l[i])}

State ==
  [map |-> MapFastbuildInfoTargets, trace |-> trace, calls |-> calls,
   overflow |-> overflow, error |-> errorOccured]

SetState(S) ==
  /\ MapFastbuildInfoTargets' = S.map
  /\ trace' = S.trace
  /\ calls' = S.calls
  /\ overflow' = S.overflow
  /\ errorOccured' = S.error

\* The state of the pass when cmGlobalFastbuildGenerator::Generate starts.
PassInit ==
  /\ MapFastbuildInfoTargets = NoEntries
  /\ trace = <<>>
  /\ calls = 0
  /\ overflow = FALSE
  /\ errorOccured = FALSE
  /\ visited = {}
  /\ phase = "targets"
  /\ warnings = <<>>
  /\ failbit = FALSE

\* No call of WriteObjectListsFB is looked at.
ObjIdle ==
  /\ objectSources = <<>>
  /\ compilerId = "MSVC"
  /\ objectLists = <<>>
  /\ objWritten = FALSE

\* No single call of a ledger function is looked at.
NoProbe == [op |-> "none"]

\* The writing functions are not looked at: a project without targets, and
\* the state cmGlobalFastbuildGenerator::Generate starts the files with.
NoAliases == [k \in {} |-> 0]

WriteIdle ==
  /\ project = [targets |-> [n \in {} |-> 0], link |-> <<>>]
  /\ IsMultiConfig = FALSE
  /\ GeneratorConfigs = {Config}
  /\ MapCompilersFB = {}
  /\ linePrefix = <<>>
  /\ closingScope = <<>>
  /\ written = <<>>
  /\ TargetAliasesFB = NoAliases
  /\ TargetAliasesOrderedFB = <<>>

Init == PassInit /\ ObjIdle /\ WriteIdle /\ probe = NoProbe

\* cmGlobalGenerator::Generate reaches a target of the project and calls its
\* Generate: the target's name, linker language and link dependencies are the
\* project's.
GenerateTarget ==
  /\ phase = "targets"
  /\ \E name \in Names \ visited, lang \in Langs, linkDeps \in DepLists :
       /\ SetState(Generate(State,
                            [name |-> name, lang |-> lang, linkDeps |-> linkDeps],
                            Config))
       /\ visited' = visited \cup {name}
  /\ UNCHANGED <<phase, warnings, failbit, objVars, probe, writeVars>>

\* The rest of cmGlobalFastbuildGenerator::Generate, once every target of the
\* project has been visited: the last chance, the warnings, and the failed
\* state of the streams if an error occurred.
FinishGenerate ==
  /\ phase = "targets"
  /\ SetState(lastChanceToTreatTargets(State))
  /\ warnings' = PrintAllTargetWithNbDeps(MapFastbuildInfoTargets')
  /\ failbit' = errorOccured'
  /\ phase' = "done"
  /\ UNCHANGED <<visited, objVars, probe, writeVars>>

Next == GenerateTarget \/ FinishGenerate

Spec == Init /\ [][Next]_vars

\* ---------------------------------------- a call of WriteObjectListsFB

Digits == <<"1", "2", "3", "4", "5", "6", "7", "8", "9">>

\* What distinguishes the object sources of the model: the flags, defines and
\* includes computed for the source, the directory of its object file and its
\* extension.  The second kind differs from the first in the flags, the third
\* in a backslash before the double quote of the defines, the fourth in the
\* includes, the fifth in the directory, the sixth in the extension.
ObjKinds ==
  LET base == [flags |-> <<"-", "a">>, defines |-> <<"\"", "d">>,
               includes |-> <<"-", "i">>, dir |-> <<>>, ext |-> <<"c">>]
  IN {base,
      [base EXCEPT !.flags = <<"-", "b">>],
      [base EXCEPT !.defines = <<"\\", "\"", "d">>],
      [base EXCEPT !.includes = <<>>],
      [base EXCEPT !.dir = <<"x", "/">>],
      [base EXCEPT !.ext = <<"r", "c">>]}

\* The i-th object source of a target, of the given kind: its full path, and
\* the name GetTargetObjectNames gives its object file.
SourceOf(kind, i) ==
  [fullPath |-> <<"s", Digits[i]>>,
   flags |-> kind.flags,
   defines |-> kind.defines,
   includes |-> kind.includes,
   object |-> kind.dir \o <<"s", Digits[i], ".", "o">>,
   ext |-> kind.ext]

SourceLists ==
  UNION {{[i \in 1..n |-> SourceOf(f[i], i)] : f \in [1..n -> ObjKinds]} :
           n \in 0..MaxSources}

InitObj ==
  /\ PassInit
  /\ WriteIdle
  /\ probe = NoProbe
  /\ objectSources \in SourceLists
  /\ compilerId \in {"MSVC", "GNU"}
  /\ objectLists = <<>>
  /\ objWritten = FALSE

\* The call WriteObjectListsFB(config, isObjectLibrary) for the target.
WriteObjectLists ==
  /\ ~objWritten
  /\ objectLists' = WriteObjectListsFB(objectSources, compilerId)
  /\ objWritten' = TRUE
  /\ UNCHANGED <<passVars, objectSources, compilerId, probe, writeVars>>

NextObj == WriteObjectLists

SpecObj == InitObj /\ [][NextObj]_vars

\* ------------------------------------ single calls of the ledger functions

\* The link dependency lists of the projects whose ledgers the single calls
\* are made on: at most one path for a target.
LedgerDepLists == {l \in DepLists : Len(l) <= 1}

\* GenerateTarget for such a project.
GenerateLedgerTarget ==
  /\ phase = "targets"
  /\ \E name \in Names \ visited, lang \in Langs, linkDeps \in LedgerDepLists :
       /\ SetState(Generate(State,
                            [name |-> name, lang |-> lang, linkDeps |-> linkDeps],
                            Config))
       /\ visited' = visited \cup {name}
  /\ UNCHANGED <<phase, warnings, failbit, objVars, probe, writeVars>>

\* A call CanTreatTargetFB(gt, config) with the ledger the pass has built so
\* far, for a target of any name: the key can have an entry or none.
CallCanTreatTargetFB ==
  /\ phase \in {"targets", "done"}
  /\ \E name \in Names, fresh \in DefaultEntries :
       LET gt == [name |-> name, lang |-> <<"C">>, linkDeps |-> <<>>]
           key == name \o Config
           after == MapSubscript(MapFastbuildInfoTargets, key, fresh)
       IN /\ MapFastbuildInfoTargets' = after
          /\ probe' = [op |-> "CanTreatTargetFB",
                       key |-> key,
                       before |-> MapFastbuildInfoTargets,
                       result |-> CanTreatTargetFB(after, gt, Config)]
  /\ phase' = "probed"
  /\ UNCHANGED <<trace, calls, overflow, errorOccured, visited, warnings,
                 failbit, objVars, writeVars>>

\* A call AddFastbuildInfoTarget(gt, name_target_deps, config) for a target
\* that has an entry, with the names of any link dependency list.
CallAddFastbuildInfoTarget ==
  /\ phase \in {"targets", "done"}
  /\ \E key \in DOMAIN MapFastbuildInfoTargets, linkDeps \in DepLists :
       LET gt == MapFastbuildInfoTargets[key].gt
           name_target_deps ==
             GetNameDepsTargets([gt EXCEPT !.linkDeps = linkDeps], Config)
       IN /\ SetState(AddFastbuildInfoTarget(State, gt, name_target_deps, Config))
          /\ probe' = [op |-> "AddFastbuildInfoTarget",
                       key |-> key,
                       name_target_deps |-> name_target_deps,
                       before |-> MapFastbuildInfoTargets,
                       traceBefore |-> trace]
  /\ phase' = "probed"
  /\ UNCHANGED <<visited, warnings, failbit, objVars, writeVars>>

NextLedger ==
  \/ GenerateLedgerTarget
  \/ FinishGenerate
  \/ CallCanTreatTargetFB
  \/ CallAddFastbuildInfoTarget

SpecLedger == Init /\ [][NextLedger]_vars

\* ------------------------------------------------- reading the ledger

Keys == DOMAIN MapFastbuildInfoTargets

Entry(k) == MapFastbuildInfoTargets[k]

\* The distinct names of the dependency list of entry k.
DepNames(k) == SeqToSet(Entry(k).name_target_deps)

\* The indexes of the trace that hold the event e.
At(e) == {i \in 1..Len(trace) : trace[i] = e}

\* The keys whose entry was treated before index i of the trace.
TreatedBefore(i) ==
  {k \in Keys : \E j \in 1..(i - 1) : trace[j] = <<"treated", k>>}

\* The registered keys entry k depends on, over one or more steps.
RECURSIVE ReachIn(_, _)
ReachIn(k, n) ==
  IF n = 0 THEN {}
  ELSE LET direct == DepNames(k) \cap Keys
       IN direct \cup UNION {ReachIn(d, n - 1) : d \in direct}

Reach(k) == ReachIn(k, Cardinality(Keys))

\* A cycle among registered targets lies in the transitive dependency set of
\* k: two different keys of the set depend on each other.
HasCycle(k) ==
  \E x, y \in Reach(k) \cup {k} : x # y /\ y \in Reach(x) /\ x \in Reach(y)

\* The number of distinct names of k's list, other than k, that have an entry
\* that is not treated, plus (while the sweep has not run) those without entry.
Outstanding(k) ==
  Cardinality({x \in DepNames(k) :
                 /\ x # k
                 /\ \/ x \in Keys /\ ~Entry(x).is_treated
                    \/ x \notin Keys /\ phase = "targets"})

\* ------------------------------------------------------------------ claims

\* C1: topological soundness.  For two registered keys A and B, A depending on
\* B over one or more steps and B not on A, whenever WriteTargetFB of A is
\* entered the blocks of B have been written and TargetTreatedFinish(B) has
\* marked B treated: B's generation is complete before A's starts, on the
\* organic, the cascade and the last-chance path.
C1_TopologicalSoundness ==
  \A A \in Keys : \A B \in Reach(A) :
     (A # B /\ A \notin Reach(B)) =>
        \A i \in At(<<"WriteTargetFB", A>>) :
           /\ \E j \in 1..(i - 1) : trace[j] = <<"block", B>>
           /\ \E j \in 1..(i - 1) : trace[j] = <<"treated", B>>

\* C1 witness: a target generated by the cascade, inside the
\* TargetTreatedFinish of a target it depends on, with a third target that it
\* depends on only through that one.
C1_Witness ==
  \E A \in Keys : \E B \in DepNames(A) \cap Keys : \E C \in Reach(B) :
     /\ A # B /\ B # C /\ A # C
     /\ C \notin DepNames(A)
     /\ \E i \in At(<<"WriteTargetFB", A>>) :
          /\ \E j \in 1..(i - 1) : trace[j] = <<"treated", B>>
          /\ \E j \in (i + 1)..Len(trace) : trace[j] = <<"return", B>>

\* C2: no double generation.  WriteTargetFB is entered at most once for every
\* key, and the pass never needs more invocations than the cap allows.
C2_NoDoubleGeneration ==
  /\ \A i, j \in 1..Len(trace) :
        (trace[i][1] = "WriteTargetFB" /\ trace[j] = trace[i]) => i = j
  /\ ~overflow

\* C2 witness: a finished pass in which one target was generated by its own
\* Generate, one by the cascade and one by the last chance.
C2_Witness ==
  /\ phase = "done"
  /\ \E A, B, C \in Keys :
       /\ A # B /\ B # C /\ A # C
       /\ Entry(A).is_treated /\ Entry(B).is_treated /\ Entry(C).is_treated
       /\ \E i \in At(<<"WriteTargetFB", B>>) :
            /\ \E j \in 1..(i - 1) : trace[j] = <<"treated", A>>
            /\ \E j \in (i + 1)..Len(trace) : trace[j] = <<"return", A>>
       /\ \E i \in At(<<"WriteTargetFB", C>>) :
            /\ \E j \in 1..(i - 1) : trace[j][1] = "unexist"
            /\ \A j \in 1..Len(trace) :
                 (trace[j][1] = "return" /\ j > i) => trace[j][2] = C

\* C3: completeness of generation.  When lastChanceToTreatTargets has returned,
\* every entry whose transitive dependency set holds no cycle among registered
\* targets is treated and has the count zero.
C3_Completeness ==
  phase = "done" =>
    \A k \in Keys :
       ~HasCycle(k) =>
          Entry(k).is_treated /\ Entry(k).number_untrated_deps = 0

\* C4: ledger count invariant.  In every state the count of every entry is the
\* number of names of its list, its own key left out as the registration
\* leaves it out, that have an entry that is not treated, plus, before the
\* sweep DecrementNbDepsTargetUnexist, the number of names without entry.
C4_LedgerCount ==
  \A k \in Keys : Entry(k).number_untrated_deps = Outstanding(k)

\* C5: unregistered-dependency tolerance.  While the targets are visited, an
\* entry whose list holds a name without entry is not treated.  At the end of
\* the pass, for every entry and every name of its list that never got an
\* entry, the entry's count was decremented for that name exactly once, by the
\* sweep; and if the other names of the list are treated, the entry was
\* generated, after the sweep.
C5_UnregisteredTolerance ==
  \A k \in Keys : \A x \in DepNames(k) \ Keys :
     /\ phase = "targets" => ~Entry(k).is_treated
     /\ phase = "done" =>
          /\ Cardinality(At(<<"unexist", k, x>>)) = 1
          /\ At(<<"dec", k, x>>) = {}
          /\ (\A y \in (DepNames(k) \cap Keys) \ {k} : Entry(y).is_treated) =>
                /\ Entry(k).is_treated
                /\ \E i \in At(<<"WriteTargetFB", k>>) :
                      \A j \in At(<<"unexist", k, x>>) : j < i

\* C5 witness: a finished pass with a treated entry whose list holds a name
\* without entry and the key of another entry.
C5_Witness ==
  /\ phase = "done"
  /\ \E k \in Keys :
       /\ DepNames(k) \ Keys # {}
       /\ (DepNames(k) \cap Keys) \ {k} # {}
       /\ Entry(k).is_treated

\* C6 as stated: every entry is created before the first WriteTargetFB of the
\* pass, and an entry is created with a count equal to the number of its
\* distinct dependency names other than its own key.
C6_RegistrationFirst ==
  \A i \in 1..Len(trace) :
     trace[i][1] = "Add" =>
        /\ \A j \in 1..(i - 1) : trace[j][1] # "WriteTargetFB"
        /\ trace[i][3] = Cardinality(DepNames(trace[i][2]) \ {trace[i][2]})

\* C6 amended: an entry is created by the target's own Generate, which can
\* come after the generation of other targets, with a count equal to the number
\* of its distinct dependency names, other than its own key, that are not
\* treated at that moment (names without entry included); and the count of an
\* entry that is not treated is zero or less only when every registered
\* dependency other than itself is treated.
C6_CountAtRegistration ==
  /\ \A i \in 1..Len(trace) :
        trace[i][1] = "Add" =>
           trace[i][3] =
             Cardinality((DepNames(trace[i][2]) \ {trace[i][2]}) \ TreatedBefore(i))
  /\ \A k \in Keys :
        Entry(k).number_untrated_deps <= 0 =>
           \A y \in (DepNames(k) \cap Keys) \ {k} : Entry(y).is_treated

\* C6 witness: an entry with two registered dependencies that was created
\* with the count 0, both being treated by then, and was generated.
C6_Witness ==
  \E i \in 1..Len(trace) :
     /\ trace[i][1] = "Add" /\ trace[i][3] = 0
     /\ Cardinality((DepNames(trace[i][2]) \cap Keys) \ {trace[i][2]}) = 2
     /\ Entry(trace[i][2]).is_treated

\* C7: self-reference is harmless.  An entry whose list holds its own key is
\* created with a count that leaves the key out, and its own completion leaves
\* its count as it was when it became ready: zero.
C7_SelfReferenceHarmless ==
  \A k \in Keys :
     k \in DepNames(k) =>
        /\ \A i \in 1..Len(trace) :
              (trace[i][1] = "Add" /\ trace[i][2] = k) =>
                 trace[i][3] <= Cardinality(DepNames(k) \ {k})
        /\ Entry(k).is_treated => Entry(k).number_untrated_deps = 0

\* C8: duplicate dependencies collapse.  The stored list holds every name
\* derived from the link dependency paths exactly once; so an entry is created
\* with a count of at most the number of its distinct names, its count while it
\* is not treated is the number of distinct names still outstanding, and it is
\* decremented at most once for a name.
C8_DuplicatesCollapse ==
  \A k \in Keys :
     LET list == Entry(k).name_target_deps
         paths == Entry(k).gt.linkDeps
     IN /\ \A i, j \in 1..Len(list) : list[i] = list[j] => i = j
        /\ SeqToSet(list) =
             {GetNameFile(paths[i]) \o Entry(k).config : i \in 1..Len(paths)}
        /\ ~Entry(k).is_treated => Entry(k).number_untrated_deps = Outstanding(k)
        /\ \A x \in SeqToSet(list) :
              Cardinality(At(<<"dec", k, x>>) \cup At(<<"unexist", k, x>>)) <= 1

\* C8 witness: an entry whose link dependencies name the same library twice,
\* created with the count 1 and generated after the single completion of that
\* library.
C8_Witness ==
  \E k \in Keys :
     LET paths == Entry(k).gt.linkDeps
     IN /\ Len(paths) = 2 /\ paths[1] = paths[2]
        /\ Len(Entry(k).name_target_deps) = 1
        /\ At(<<"Add", k, 1>>) # {}
        /\ Cardinality(At(<<"dec", k, Entry(k).name_target_deps[1]>>)) = 1
        /\ Entry(k).name_target_deps[1] # k
        /\ Entry(k).is_treated

\* The keys of the entries that have nothing to do with the target called
\* name: neither they nor an entry they depend on name its key.
Unrelated(name) ==
  {k \in Keys : \A d \in Reach(k) \cup {k} : (name \o Config) \notin DepNames(d)}

\* The target called name had no linker language: its Generate reported the
\* error.
Failed(name) == At(<<"Error", name>>) # {}

\* C9 as stated: at the end of the pass a target without linker language has
\* an error naming it and no block, while every unrelated entry (whose
\* dependencies hold no cycle) is generated and the output is produced: the
\* streams are not in the failed state.
C9_SiblingsOutputProduced ==
  phase = "done" =>
    \A name \in Names :
       Failed(name) =>
          /\ errorOccured
          /\ At(<<"block", name \o Config>>) = {}
          /\ \A k \in Unrelated(name) :
                ~HasCycle(k) =>
                   /\ Entry(k).is_treated
                   /\ At(<<"block", k>>) # {}
                   /\ ~failbit

\* C9 amended: a target without linker language has an error naming it, no
\* entry and no block, in every state; at the end of the pass every unrelated
\* entry (whose dependencies hold no cycle) has been generated, its blocks
\* written to the stream, and the streams are then put in the failed state
\* because of the error.
C9_SiblingsGenerated ==
  \A name \in Names :
     Failed(name) =>
        /\ errorOccured
        /\ (name \o Config) \notin Keys
        /\ At(<<"block", name \o Config>>) = {}
        /\ At(<<"WriteTargetFB", name \o Config>>) = {}
        /\ phase = "done" =>
             /\ failbit
             /\ \A k \in Unrelated(name) :
                   ~HasCycle(k) =>
                      Entry(k).is_treated /\ At(<<"block", k>>) # {}

\* C9 witness: a finished pass with a target without linker language, visited
\* first, and two entries generated after it, one of them in the last chance.
C9_Witness ==
  /\ phase = "done"
  /\ failbit
  /\ trace # <<>>
  /\ trace[1][1] = "Error"
  /\ \E k1, k2 \in Unrelated(trace[1][2]) :
       /\ k1 # k2
       /\ Entry(k1).is_treated /\ Entry(k2).is_treated
       /\ \E i \in At(<<"block", k2>>) :
             \E j \in 1..(i - 1) : trace[j][1] = "unexist"

\* What WriteObjectListsFB compares of the i-th object source.
Settings(i) ==
  <<ComputeOptions(objectSources[i], compilerId),
    GetPath(objectSources[i].object),
    objectSources[i].ext>>

\* The indexes, from the second on, of the sources that differ from the source
\* before them.
Breaks == {i \in 2..Len(objectSources) : Settings(i) # Settings(i - 1)}

\* The number of the maximal run of equal consecutive sources that holds the
\* i-th source.
RunOf(i) == 1 + Cardinality({j \in Breaks : j <= i})

\* The concatenation of the lists of the calls from the g-th on.
RECURSIVE Concat(_, _)
Concat(lists, g) ==
  IF g > Len(lists) THEN <<>>
  ELSE lists[g].objectList \o Concat(lists, g + 1)

\* C10: object grouping is an order-preserving partition into maximal
\* consecutive runs.  For a target with object sources, the lists written are
\* numbered from 1, one for each maximal run of consecutive sources with equal
\* options (flags, defines, includes as computed), equal object directory and
\* equal extension; each holds the sources of its run in order, with the
\* settings of the run; their concatenation is the source list.
C10_ObjectGrouping ==
  (objWritten /\ objectSources # <<>>) =>
     /\ Len(objectLists) = 1 + Cardinality(Breaks)
     /\ \A g \in 1..Len(objectLists) :
           LET run == SelectSeq([i \in 1..Len(objectSources) |-> i],
                                LAMBDA i : RunOf(i) = g)
           IN /\ objectLists[g].number = g
              /\ objectLists[g].objectList =
                   [n \in 1..Len(run) |->
                      <<"\"">> \o objectSources[run[n]].fullPath \o <<"\"">>]
              /\ \A n \in 1..Len(run) :
                    Settings(run[n]) = <<objectLists[g].compilerOptions,
                                         objectLists[g].output_path,
                                         objectLists[g].extension>>
     /\ Concat(objectLists, 1) =
          [i \in 1..Len(objectSources) |->
             <<"\"">> \o objectSources[i].fullPath \o <<"\"">>]

\* C10 witness: the sources [s1(A), s2(A), s3(B), s4(A)], A and B differing
\* in the flags, were written as the lists [{s1, s2}, {s3}, {s4}].
C10_Witness ==
  /\ objWritten
  /\ Len(objectSources) = 4
  /\ objectSources[1].flags = <<"-", "a">>
  /\ objectSources[3].flags = <<"-", "b">>
  /\ Settings(1) = Settings(2) /\ Settings(4) = Settings(1)
  /\ Len(objectLists) = 3
  /\ Len(objectLists[1].objectList) = 2
  /\ objectLists[2].objectList = << <<"\"", "s", "3", "\"">> >>
  /\ objectLists[3].objectList = << <<"\"", "s", "4", "\"">> >>

\* The key lies on a cycle among registered targets: it depends, over one or
\* more steps, on another key that depends on it.
InCycle(k) == \E y \in Reach(k) : y # k /\ k \in Reach(y)

\* C11: termination.  Every handler of the pass returns without reaching the
\* cap on WriteTargetFB invocations; the number of invocations is at most the
\* number of entries of the ledger; lastChanceToTreatTargets reaches every
\* entry exactly once, in one pass, after the sweep; and a key on a cycle among
\* registered targets is never generated and stays not treated.
C11_Termination ==
  /\ ~overflow
  /\ calls <= Cardinality(Keys)
  /\ Cardinality({i \in 1..Len(trace) : trace[i][1] = "WriteTargetFB"}) = calls
  /\ \A k \in Keys :
        /\ Cardinality(At(<<"lastChance", k>>)) = IF phase = "done" THEN 1 ELSE 0
        /\ InCycle(k) =>
              /\ ~Entry(k).is_treated
              /\ At(<<"WriteTargetFB", k>>) = {}
              /\ Entry(k).number_untrated_deps > 0

\* C11 witness: a finished pass with two keys on a cycle, not treated, and a
\* third key that depends on neither and was generated by the last chance
\* after the sweep decremented it.
C11_Witness ==
  /\ phase = "done"
  /\ \E a, b, c \in Keys :
       /\ a # b /\ InCycle(a) /\ b \in Reach(a) /\ a \in Reach(b)
       /\ ~Entry(a).is_treated /\ ~Entry(b).is_treated
       /\ c \notin {a, b} /\ Entry(c).is_treated
       /\ \E i \in At(<<"lastChance", c>>) :
            /\ i + 2 <= Len(trace)
            /\ trace[i + 2] = <<"WriteTargetFB", c>>
       /\ At(<<"unexist", c, <<"e", "r">>>>) # {}

\* The warnings are one for every entry that is not treated and for no other,
\* each with the key and the count of its entry.
WarningsNameUnfinished ==
  /\ {warnings[i].name : i \in 1..Len(warnings)} =
       {k \in Keys : ~Entry(k).is_treated}
  /\ \A i, j \in 1..Len(warnings) : warnings[i].name = warnings[j].name => i = j
  /\ \A i \in 1..Len(warnings) :
        warnings[i].nb_deps = Entry(warnings[i].name).number_untrated_deps

\* C12 as stated: at the end of the pass the warnings are those of the entries
\* that are not treated, each with its key, its count and its unresolved
\* dependency names: no name reported for an entry is the key of a treated
\* entry.
C12_UnresolvedNamesReported ==
  phase = "done" =>
    /\ WarningsNameUnfinished
    /\ \A i \in 1..Len(warnings) :
          \A x \in SeqToSet(warnings[i].deps) :
             x \notin Keys \/ ~Entry(x).is_treated

\* C12 amended: at the end of the pass the warnings are those of the entries
\* that are not treated, each with its key, its count (which is positive) and
\* the whole dependency list of the entry, treated dependencies and names
\* without entry included; before the end nothing is reported.
C12_UnfinishedReported ==
  /\ phase = "targets" => warnings = <<>>
  /\ phase = "done" =>
       /\ WarningsNameUnfinished
       /\ \A i \in 1..Len(warnings) :
             /\ warnings[i].deps = Entry(warnings[i].name).name_target_deps
             /\ warnings[i].nb_deps > 0

\* C12 witness: a finished pass that reports an entry with two dependency
\* names, one of them the key of a treated entry, and does not report the
\* treated entry.
C12_Witness ==
  /\ phase = "done"
  /\ \E i \in 1..Len(warnings) :
       /\ Len(warnings[i].deps) = 2
       /\ \E x \in SeqToSet(warnings[i].deps) \cap Keys : Entry(x).is_treated
       /\ \E x \in SeqToSet(warnings[i].deps) \cap Keys : ~Entry(x).is_treated

\* C13: non-negative count.  In every state every entry, treated or not, has a
\* count of zero or more.
C13_NonNegativeCount ==
  \A k \in Keys : Entry(k).number_untrated_deps >= 0

\* The number of decrements of entry k, by TargetTreatedFinish or the sweep,
\* in the events of t after the first n.
DecrementsAfter(t, n, k) ==
  Cardinality({i \in (n + 1)..Len(t) :
                 t[i][1] \in {"dec", "unexist"} /\ t[i][2] = k})

\* C14: readiness monotonicity.  A handler of the pass keeps every entry, with
\* its dependency list and target; what it changes of an entry's count are the
\* decrements of TargetTreatedFinish and of the sweep, so the count never
\* increases; and an entry that is treated stays treated.
C14_ReadinessMonotone ==
  [][\A k \in Keys :
       /\ k \in DOMAIN MapFastbuildInfoTargets'
       /\ Len(trace') >= Len(trace)
       /\ MapFastbuildInfoTargets'[k].number_untrated_deps =
            Entry(k).number_untrated_deps - DecrementsAfter(trace', Len(trace), k)
       /\ MapFastbuildInfoTargets'[k].number_untrated_deps
            <= Entry(k).number_untrated_deps
       /\ Entry(k).is_treated => MapFastbuildInfoTargets'[k].is_treated]_vars

\* C14 witness: an entry created with the count 2 that lost one to the
\* completion of a dependency and one to the sweep, was registered again by
\* the Generate of the last chance, and is treated with the count 0.
C14_Witness ==
  \E k \in Keys :
     /\ At(<<"Add", k, 2>>) # {}
     /\ \E x \in DepNames(k) : At(<<"dec", k, x>>) # {}
     /\ \E x \in DepNames(k) : At(<<"unexist", k, x>>) # {}
     /\ Entry(k).is_treated
     /\ Entry(k).number_untrated_deps = 0

\* C15: the output of a target is not interleaved.  Between WriteTargetFB being
\* entered for a key and TargetTreatedFinish marking the key treated, the
\* events are the blocks of that key and nothing else; every block of the key
\* is written there, so no event of another target, nor of the cascade, lies
\* between two blocks of the key.
C15_BlocksContiguous ==
  \A k \in Keys :
     /\ \A i, j \in At(<<"block", k>>) :
           \A m \in i..j : trace[m] = <<"block", k>>
     /\ \A i \in At(<<"WriteTargetFB", k>>) :
           \E j \in At(<<"treated", k>>) :
              /\ i < j
              /\ \A m \in (i + 1)..(j - 1) : trace[m] = <<"block", k>>
              /\ \A m \in At(<<"block", k>>) : i < m /\ m < j

\* C15 witness: a target with two dependents whose completion generated both
\* in its cascade, after its own two blocks.
C15_Witness ==
  \E k, d1, d2 \in Keys :
     /\ d1 # d2 /\ k \notin {d1, d2}
     /\ \E i \in At(<<"treated", k>>) : \E r \in At(<<"return", k>>) :
          /\ trace[i - 1] = <<"block", k>> /\ trace[i - 2] = <<"block", k>>
          /\ \E m \in At(<<"block", d1>>) : i < m /\ m < r
          /\ \E m \in At(<<"block", d2>>) : i < m /\ m < r

\* C16: CanTreatTargetFB is a pure query.  A call returns true exactly when
\* the key has an entry with the count zero that is not treated, and leaves
\* the ledger as it was, whether the key has an entry or not.
C16_PureQuery ==
  probe.op = "CanTreatTargetFB" =>
     /\ probe.result =
          (/\ probe.key \in DOMAIN probe.before
           /\ probe.before[probe.key].number_untrated_deps = 0
           /\ ~probe.before[probe.key].is_treated)
     /\ MapFastbuildInfoTargets = probe.before

\* C17: registration is idempotent.  A call of AddFastbuildInfoTarget for a
\* key that has an entry leaves the ledger as it was, whatever dependency list
\* the call brings, and generates nothing: no event is recorded and
\* WriteTargetFB is not called.
C17_RegistrationIdempotent ==
  probe.op = "AddFastbuildInfoTarget" =>
     /\ MapFastbuildInfoTargets = probe.before
     /\ trace = probe.traceBefore
     /\ calls = Cardinality({i \in 1..Len(probe.traceBefore) :
                               probe.traceBefore[i][1] = "WriteTargetFB"})

\* C17 witness: a call for a key whose entry is not treated, with a dependency
\* list that is not empty and is not the one the entry holds.
C17_Witness ==
  /\ probe.op = "AddFastbuildInfoTarget"
  /\ probe.name_target_deps # probe.before[probe.key].name_target_deps
  /\ probe.name_target_deps # <<>>
  /\ probe.before[probe.key].name_target_deps # <<>>
  /\ ~probe.before[probe.key].is_treated

\* The keys that had an entry before index i of the trace.
AddedBefore(i) ==
  {k \in Keys : \E j \in 1..(i - 1) : trace[j][1] = "Add" /\ trace[j][2] = k}

\* The decrements TargetTreatedFinish(key) applied to entry e.
DecsOf(e, key) == At(<<"dec", e, key>>)

\* C18: the effect of TargetTreatedFinish(key).  The entry of key is treated;
\* every other entry that existed loses exactly the number of occurrences of
\* key in its list; the count of key's own entry and of every entry whose list
\* does not hold key is not decremented; and no dependency list or target is
\* changed: every entry still holds the names of its target's dependencies.
C18_FinishEffect ==
  \A key \in Keys : \A i \in At(<<"treated", key>>) :
     (\E r \in At(<<"return", key>>) : r > i) =>
        /\ Entry(key).is_treated
        /\ DecsOf(key, key) = {}
        /\ \A e \in Keys \ {key} :
              /\ Cardinality(DecsOf(e, key)) =
                   IF e \in AddedBefore(i)
                   THEN Occurrences(Entry(e).name_target_deps, key)
                   ELSE 0
              /\ \A d \in DecsOf(e, key) : i < d
        /\ \A e \in Keys :
              /\ Entry(e).name_target_deps = GetNameDepsTargets(Entry(e).gt, Config)
              /\ Entry(e).gt.name \o Entry(e).config = e

\* C19 as stated: inside TargetTreatedFinish(key) no target is generated
\* before the decrements for key have been applied to every entry: no
\* WriteTargetFB lies between the key being marked treated and a decrement
\* for the key of the entry of another target.
C19_DecrementThenScan ==
  \A i, j, d \in 1..Len(trace) :
     ~(/\ i < j /\ j < d
       /\ trace[i][1] = "treated"
       /\ trace[j][1] = "WriteTargetFB"
       /\ trace[d][1] = "dec" /\ trace[d][3] = trace[i][2]
       /\ trace[d][2] # trace[i][2])

\* The count entry e had after the event at index d of the trace.
CountAt(e, d) ==
  LET add == CHOOSE a \in 1..Len(trace) : trace[a][1] = "Add" /\ trace[a][2] = e
  IN trace[add][3] -
       Cardinality({m \in 1..d : trace[m][1] \in {"dec", "unexist"}
                                  /\ trace[m][2] = e})

\* C19 amended: TargetTreatedFinish(key) goes over the ledger once, in key
\* order, and for each entry applies the decrements for key and tests that
\* entry at once.  So the decrements for key come in key order of the entries;
\* an entry that its decrement for key leaves ready is generated right then,
\* before the entries after it are decremented; and a target is generated only
\* after the decrement for every dependency that finished since its
\* registration has been applied to its own entry.
C19_DecrementAndScanInterleaved ==
  /\ \A d1, d2 \in 1..Len(trace) :
        (/\ d1 < d2
         /\ trace[d1][1] = "dec" /\ trace[d2][1] = "dec"
         /\ trace[d1][3] = trace[d2][3])
        => StrLess(trace[d1][2], trace[d2][2])
  /\ \A d \in 1..Len(trace) :
        (/\ trace[d][1] = "dec"
         /\ CountAt(trace[d][2], d) <= 0
         /\ trace[d][2] \notin TreatedBefore(d))
        => /\ d < Len(trace)
           /\ trace[d + 1] = <<"statements", trace[d][2]>>
           /\ d + 2 < Len(trace)
           /\ trace[d + 2] = <<"WriteTargetFB", trace[d][2]>>
  /\ \A X \in Keys : \A j \in At(<<"WriteTargetFB", X>>) :
        \A key \in (DepNames(X) \ {X}) \cap Keys :
           \A i \in At(<<"treated", key>>) :
              X \in AddedBefore(i) =>
                 \E d \in DecsOf(X, key) : i < d /\ d < j

\* C19 witness: two dependents of one target; the completion of the target
\* generated the first of them, in key order, before it decremented the
\* second, and then generated the second.
C19_Witness ==
  \E key, X, Y \in Keys :
     /\ StrLess(X, Y)
     /\ \E i \in At(<<"treated", key>>) : \E j \in At(<<"WriteTargetFB", X>>) :
          \E d \in DecsOf(Y, key) : \E g \in At(<<"WriteTargetFB", Y>>) :
             \E r \in At(<<"return", key>>) :
                i < j /\ j < d /\ d < g /\ g < r

\* The indexes of the trace where DecrementNbDepsTargetUnexist was entered.
Sweeps == At(<<"sweep">>)

\* The indexes of the decrements of the sweep.
Unexists == {u \in 1..Len(trace) : trace[u][1] = "unexist"}

\* C20: the sweep of the names without entry.  While the targets are visited
\* there is no sweep; at the end of the pass there has been exactly one,
\* entered after every registration, every organic Generate and every cascade
\* and before lastChanceToTreatTargets reached its first entry.  Its
\* decrements are one for every entry that was not treated and every name of
\* its list without entry, and no other; and right after it the count of every
\* entry that is not treated is the number of names of its list, other than
\* its own key, that have an entry that is not treated.
C20_SweepOnceAndExact ==
  /\ phase = "targets" => Sweeps = {} /\ Unexists = {}
  /\ phase = "done" =>
       /\ Cardinality(Sweeps) = 1
       /\ \A s \in Sweeps :
             LET last == s + Cardinality(Unexists)
                 unfinished == Keys \ TreatedBefore(s)
             IN /\ \A i \in 1..(s - 1) :
                       trace[i][1] \notin {"unexist", "lastChance"}
                /\ \A i \in (s + 1)..Len(trace) :
                       trace[i][1] \notin {"Add", "Error"}
                /\ \A i \in (s + 1)..last : trace[i][1] = "unexist"
                /\ \A i \in (last + 1)..Len(trace) : trace[i][1] # "unexist"
                /\ \A k \in Keys : Cardinality(At(<<"lastChance", k>>)) = 1
                /\ \A u \in Unexists :
                       /\ trace[u][2] \in unfinished
                       /\ trace[u][3] \in DepNames(trace[u][2]) \ Keys
                /\ \A k \in unfinished : \A x \in DepNames(k) \ Keys :
                       Cardinality(At(<<"unexist", k, x>>)) = 1
                /\ \A k \in unfinished :
                       CountAt(k, last) =
                         Cardinality({x \in DepNames(k) \ {k} :
                                        x \in unfinished})

\* C20 witness: a finished pass whose sweep decremented two entries: one was
\* left with a count above zero by a dependency that is not treated, the other
\* was generated by the last chance.
C20_Witness ==
  /\ phase = "done"
  /\ \E k1, k2 \in Keys :
       /\ k1 # k2
       /\ \E u \in Unexists : trace[u][2] = k1
       /\ \E u \in Unexists : trace[u][2] = k2
       /\ ~Entry(k1).is_treated /\ Entry(k1).number_untrated_deps = 1
       /\ Entry(k2).is_treated

\* ------------------------------------------------- the name functions

\* GetNameTargetLibrary: the name of the Fastbuild node of a library file.
\* The file name is cut at its last '.'; substr(found_point, n) == ext compares
\* the n characters from that '.' with ext, and nameFile.find(".so") looks for
\* the three characters anywhere in the file name.
GetNameTargetLibrary(namePathFile, isMultiConfig, config) ==
  LET found1 == RFind(namePathFile, "/")
      found2 == RFind(namePathFile, "\\")
      found == IF found1 # 0 /\ found2 = 0 THEN (found1 - 1) + 1
               ELSE IF found1 = 0 /\ found2 # 0 THEN (found2 - 1) + 1
               ELSE IF found1 # 0 /\ found2 # 0
                    THEN (IF found1 < found2 THEN found2 - 1 ELSE found1 - 1)
               ELSE 0
      nameFile == SubstrFrom(namePathFile, found)
      found_point == RFind(nameFile, ".")
      Substr(n) == SubSeq(nameFile, found_point,
                          IF found_point + n - 1 <= Len(nameFile)
                          THEN found_point + n - 1 ELSE Len(nameFile))
      hasSo == \E i \in 1..(Len(nameFile) - 2) :
                 SubSeq(nameFile, i, i + 2) = <<".", "s", "o">>
      cut == SubstrTo(nameFile, found_point - 1)
      withConfig(nameTarget) ==
        IF isMultiConfig THEN nameTarget \o <<"_">> \o config ELSE nameTarget
  IN IF found_point = 0 THEN withConfig(<<>>)
     ELSE IF Substr(4) = <<".", "l", "i", "b">> \/ Substr(2) = <<".", "a">>
          THEN withConfig(cut \o <<"_", "l", "i", "b">>)
     ELSE IF hasSo THEN withConfig(cut \o <<"_", "d", "l", "l">>)
     ELSE IF Substr(9) = <<".", "m", "a", "n", "i", "f", "e", "s", "t">>
          THEN <<>>
     ELSE withConfig(cut)

\* ReplaceDashWithUnderscores with a single replacement: the first '-' only.
ReplaceDashWithUnderscores_once(str) ==
  LET it == Find(str, "-")
  IN IF it = 0 THEN str
     ELSE SubSeq(str, 1, it - 1) \o <<"_", "_">> \o SubSeq(str, it + 1, Len(str))

\* ReplaceDashWithUnderscores: while the string holds a '-', the first one is
\* replaced by two underscores.
RECURSIVE ReplaceDashWithUnderscores(_)
ReplaceDashWithUnderscores(str) ==
  LET it == Find(str, "-")
  IN IF it = 0 THEN str
     ELSE ReplaceDashWithUnderscores(
            SubSeq(str, 1, it - 1) \o <<"_", "_">>
              \o SubSeq(str, it + 1, Len(str)))

\* The strings the name functions are called with in the model: any string of
\* at most MaxPrefixLen characters followed by one of the endings a library
\* file (or another file) can have.
PathChars == {"n", "/", "\\", ".", "-"}

Endings ==
  {<<>>,
   <<".", "l", "i", "b">>,
   <<".", "a">>,
   <<".", "s", "o">>,
   <<".", "s", "o", ".", "1">>,
   <<".", "d", "l", "l">>,
   <<".", "m", "a", "n", "i", "f", "e", "s", "t">>,
   <<".", "a", "p", "p">>,
   <<".", "l", "i", "b", "s">>}

NamePaths ==
  {p \o e : p \in UNION {[1..n -> PathChars] : n \in 0..MaxPrefixLen},
            e \in Endings}

\* A string is given; no name function has been called on it yet.
InitNames ==
  /\ PassInit
  /\ ObjIdle
  /\ WriteIdle
  /\ probe \in {[op |-> "input", namePathFile |-> p] : p \in NamePaths}

\* The call GetNameFile(namePathFile).
CallGetNameFile ==
  /\ probe.op = "input"
  /\ probe' = [op |-> "GetNameFile",
               namePathFile |-> probe.namePathFile,
               result |-> GetNameFile(probe.namePathFile)]
  /\ UNCHANGED <<passVars, objVars, writeVars>>

\* The call GetNameTargetLibrary(namePathFile, isMultiConfig, config).
CallGetNameTargetLibrary ==
  /\ probe.op = "input"
  /\ \E isMultiConfig \in BOOLEAN :
       probe' = [op |-> "GetNameTargetLibrary",
                 namePathFile |-> probe.namePathFile,
                 isMultiConfig |-> isMultiConfig,
                 config |-> Config,
                 result |-> GetNameTargetLibrary(probe.namePathFile,
                                                 isMultiConfig, Config)]
  /\ UNCHANGED <<passVars, objVars, writeVars>>

\* The call ReplaceDashWithUnderscores(str), and the call on its result.
CallReplaceDashWithUnderscores ==
  /\ probe.op = "input"
  /\ probe' = [op |-> "ReplaceDashWithUnderscores",
               str |-> probe.namePathFile,
               result |-> ReplaceDashWithUnderscores(probe.namePathFile),
               again |-> ReplaceDashWithUnderscores(
                           ReplaceDashWithUnderscores(probe.namePathFile))]
  /\ UNCHANGED <<passVars, objVars, writeVars>>

NextNames ==
  \/ CallGetNameFile
  \/ CallGetNameTargetLibrary
  \/ CallReplaceDashWithUnderscores

SpecNames == InitNames /\ [][NextNames]_vars

\* The last component of a path whose directories are separated by '/', by
\* '\' or by both.
LastComponent(path) ==
  LET seps == {i \in 1..Len(path) : path[i] \in {"/", "\\"}}
      last == IF seps = {} THEN 0 ELSE CHOOSE i \in seps : \A j \in seps : j <= i
  IN SubSeq(path, last + 1, Len(path))

\* A file name without the text from its last '.' onward.
WithoutFinalExtension(file) ==
  IF RFind(file, ".") = 0 THEN file ELSE SubstrTo(file, RFind(file, ".") - 1)

\* The text of a file name from its last '.' onward, empty without a '.'.
FinalExtension(file) ==
  IF RFind(file, ".") = 0 THEN <<>> ELSE SubSeq(file, RFind(file, "."), Len(file))

\* C26: GetNameFile(path) is the last component of the path, whichever
\* separators the path uses, without the text from the last '.' of the file
\* name onward; it holds no separator.
C26_LastComponentWithoutFinalExtension ==
  probe.op = "GetNameFile" =>
    /\ probe.result = WithoutFinalExtension(LastComponent(probe.namePathFile))
    /\ \A i \in 1..Len(probe.result) : probe.result[i] \notin {"/", "\\"}

\* A shared object: the file name ends in ".so", or in ".so" and a version.
IsSharedObject(file) ==
  \/ FinalExtension(file) = <<".", "s", "o">>
  \/ FinalExtension(WithoutFinalExtension(file)) = <<".", "s", "o">>

\* The suffix for the kind of artifact the final extension tells.
KindSuffix(file) ==
  IF FinalExtension(file) \in {<<".", "l", "i", "b">>, <<".", "a">>}
  THEN <<"_", "l", "i", "b">>
  ELSE IF IsSharedObject(file) THEN <<"_", "d", "l", "l">>
  ELSE <<>>

\* C27: GetNameTargetLibrary gives the file name cut at its last '.' the suffix
\* "_lib" exactly for the final extensions ".lib" and ".a", "_dll" exactly for a
\* shared object and no suffix otherwise, then "_" and the configuration in
\* multi-configuration mode; for a ".manifest" file it gives the empty string.
C27_SuffixByKind ==
  probe.op = "GetNameTargetLibrary" =>
    LET file == LastComponent(probe.namePathFile)
        stem == IF RFind(file, ".") = 0 THEN <<>> ELSE WithoutFinalExtension(file)
        sep == {i \in 1..Len(probe.namePathFile) :
                  probe.namePathFile[i] \in {"/", "\\"}}
        \* the separator the code keeps in front of the file name when the
        \* path holds both kinds is not what this claim is about
        kept == IF RFind(probe.namePathFile, "/") # 0
                     /\ RFind(probe.namePathFile, "\\") # 0
                     /\ RFind(file, ".") # 0
                THEN <<probe.namePathFile[CHOOSE i \in sep : \A j \in sep : j <= i]>>
                ELSE <<>>
    IN IF FinalExtension(file) = <<".", "m", "a", "n", "i", "f", "e", "s", "t">>
       THEN probe.result = <<>>
       ELSE probe.result =
              kept \o stem \o KindSuffix(file)
                \o (IF probe.isMultiConfig THEN <<"_">> \o probe.config ELSE <<>>)

\* Every '-' replaced by two underscores, every other character kept.
RECURSIVE DashesReplaced(_)
DashesReplaced(str) ==
  IF str = <<>> THEN <<>>
  ELSE (IF Head(str) = "-" THEN <<"_", "_">> ELSE <<Head(str)>>)
         \o DashesReplaced(Tail(str))

\* C30: ReplaceDashWithUnderscores returns, its result holds no '-', it is the
\* input with every '-' replaced by underscores and every other character
\* unchanged in its place, and applying the function to the result gives the
\* result.
C30_DashesReplaced ==
  probe.op = "ReplaceDashWithUnderscores" =>
    /\ \A i \in 1..Len(probe.result) : probe.result[i] # "-"
    /\ probe.result = DashesReplaced(probe.str)
    /\ probe.again = probe.result

\* The function was applied to a string with two '-' and other characters
\* between and after them.
C30_Witness ==
  /\ probe.op = "ReplaceDashWithUnderscores"
  /\ Cardinality({i \in 1..Len(probe.str) : probe.str[i] = "-"}) >= 2
  /\ \E i \in 1..Len(probe.str) : probe.str[i] # "-"
  /\ Len(probe.result) = Len(probe.str) + 2

\* C28: for a target with at least one object source, the groups
\* WriteObjectListsFB writes are numbered 1, 2, ... n in the order they are
\* written, n is one more than the number of adjacent sources whose settings
\* differ, and no group is empty.
C28_GroupsNonEmptyAndNumbered ==
  (objWritten /\ objectSources # <<>>) =>
    /\ Len(objectLists) = 1 + Cardinality(Breaks)
    /\ \A g \in 1..Len(objectLists) :
         /\ objectLists[g].number = g
         /\ objectLists[g].objectList # <<>>

\* A target whose first object file lies in a directory and whose sources
\* fall into three groups.
C28_Witness ==
  /\ objWritten
  /\ objectSources # <<>>
  /\ GetPath(objectSources[1].object) # <<>>
  /\ Len(objectLists) = 3
  /\ \A g \in 1..3 : objectLists[g].objectList # <<>>

\* ------------------------------- projects whose libraries are named both ways

\* The output files of the library target of the given name: the MSVC style
\* name.lib, and with the prefix CMake gives libraries elsewhere, libname.a
\* and libname.so (here in a directory).
LibraryFiles(name) ==
  {name \o <<".", "l", "i", "b">>,
   <<"l", "i", "b">> \o name \o <<".", "a">>,
   <<"x", "/", "l", "i", "b">> \o name \o <<".", "s", "o">>}

\* The lists ComputeLinkDeps can return for a target of such a project: no
\* path, or the output file of a library target of the project.
LibraryDepLists ==
  {<<>>} \cup {<<p>> : p \in UNION {LibraryFiles(n) : n \in Names}}

\* GenerateTarget for such a project.
GenerateLibraryTarget ==
  /\ phase = "targets"
  /\ \E name \in Names \ visited, lang \in Langs, linkDeps \in LibraryDepLists :
       /\ SetState(Generate(State,
                            [name |-> name, lang |-> lang, linkDeps |-> linkDeps],
                            Config))
       /\ visited' = visited \cup {name}
  /\ UNCHANGED <<phase, warnings, failbit, objVars, probe, writeVars>>

NextLibraries == GenerateLibraryTarget \/ FinishGenerate

SpecLibraries == Init /\ [][NextLibraries]_vars

\* The keys of the library targets whose output file is among the link
\* dependency paths of entry k.
LibraryKeys(k) ==
  {n \o Config : n \in {m \in Names :
     \E i \in 1..Len(Entry(k).gt.linkDeps) :
        Entry(k).gt.linkDeps[i] \in LibraryFiles(m)}}

\* C24: the name GetNameDepsTargets derives from the output file of a library
\* target N, in either naming style, is the key N + config of that target, and
\* a dependent (that the library does not depend on in turn) is not generated
\* before the library's blocks are written.
C24_DependencyNamesMatchKeys ==
  \A A \in Keys :
     /\ LibraryKeys(A) = DepNames(A)
     /\ \A B \in LibraryKeys(A) \cap Keys :
          (A # B /\ A \notin LibraryKeys(B)) =>
             \A i \in At(<<"WriteTargetFB", A>>) :
                \E j \in 1..(i - 1) : trace[j] = <<"block", B>>

\* ------------------------------------- a pass over several configurations

\* The targets and the configurations of a project that is generated for two
\* configurations.  The ledger key is cmStrCat(name, config).
ConfigNames == {<<"a">>, <<"a", "b">>}

Configs == {<<"c">>, <<"b", "c">>}

\* The lists ComputeLinkDeps can return for a target of the project in a
\* configuration: no path, the library of a target of the project, or a
\* library no target builds.
ConfigDepLists ==
  {<<>>,
   <<<<"a", ".", "l", "i", "b">>>>,
   <<<<"a", "b", ".", "l", "i", "b">>>>,
   <<<<"e", ".", "l", "i", "b">>>>}

\* The local generator calls Generate(config) of a target for a configuration
\* of the project, once for each target and configuration; visited holds the
\* pairs <<name, config>> done.
GenerateTargetConfig ==
  /\ phase = "targets"
  /\ \E name \in ConfigNames, config \in Configs, lang \in Langs,
        linkDeps \in ConfigDepLists :
       /\ <<name, config>> \notin visited
       /\ SetState(Generate(State,
                            [name |-> name, lang |-> lang, linkDeps |-> linkDeps],
                            config))
       /\ visited' = visited \cup {<<name, config>>}
  /\ UNCHANGED <<phase, warnings, failbit, objVars, probe, writeVars>>

NextConfigs == GenerateTargetConfig \/ FinishGenerate

SpecConfigs == Init /\ [][NextConfigs]_vars

\* WriteTargetFB of X was entered inside the TargetTreatedFinish of K.
Cascaded(K, X) ==
  \E i \in At(<<"WriteTargetFB", X>>) :
     /\ \E j \in 1..(i - 1) : trace[j] = <<"treated", K>>
     /\ \E j \in (i + 1)..Len(trace) : trace[j] = <<"return", K>>

\* C23: configurations are isolated.  Every (name, configuration) pair whose
\* Generate was called has a ledger entry of its own, unless the call ended
\* with the error of the missing linker language; when a target of
\* configuration c1 is finished, the entries decremented and the entries
\* generated inside its TargetTreatedFinish are of configuration c1.
C23_ConfigurationsIsolated ==
  /\ Cardinality(visited)
       = Cardinality(Keys)
           + Cardinality({i \in 1..Len(trace) : trace[i][1] = "Error"})
  /\ \A i \in 1..Len(trace) :
       trace[i][1] = "dec" =>
         Entry(trace[i][2]).config = Entry(trace[i][3]).config
  /\ \A K \in Keys, X \in Keys :
       Cascaded(K, X) => Entry(X).config = Entry(K).config

\* ------------------------------------------------- the writing functions

\* The writing functions work on the record W of the generator's members they
\* change (MapCompilersFB, linePrefix, closingScope, TargetAliasesFB,
\* TargetAliasesOrderedFB) and of what was written.

\* Quote(str): the string between two single quotes, nothing for the empty one.
Quote(str) == IF str = <<>> THEN <<>> ELSE <<"'">> \o str \o <<"'">>

\* A string made of quoted names, as the list of these names: appending
\* Quote(name) adds a name, and nothing when the name is empty.
ListCat(list, name) == IF name = <<>> THEN list ELSE Append(list, Quote(name))

\* The element of a set of one element.  A function that reads more than
\* once the state it is given, or a value it computes, takes it as the
\* element of a set of one element, so that it is computed once.
TheValue(S) == CHOOSE v \in S : TRUE

\* WritePushScope(os, begin, end)
WritePushScope(old, end) ==
  TheValue({(
  [W EXCEPT !.linePrefix = Append(@, "\t"),
            !.closingScope = Append(@, end),
            !.written = Append(@, <<"push", Append(W.linePrefix, "\t"),
                                    Append(W.closingScope, end)>>)]
  ) : W \in {old}})

\* WritePushScopeStruct(os)
WritePushScopeStruct(W) == WritePushScope(W, "]")

\* WritePopScope(os).  With an empty linePrefix the assertion fails (and
\* without assertions resize(size() - 1) cannot be done): the run ends there.
\* With an empty closingScope under a linePrefix that is not empty the closer
\* is read outside the string: "?" stands for whichever character that gives.
WritePopScope(old) ==
  TheValue({(
  IF W.linePrefix = <<>>
  THEN [W EXCEPT !.written = Append(@, <<"assert">>)]
  ELSE LET prefix == SubSeq(W.linePrefix, 1, Len(W.linePrefix) - 1)
           closer == IF W.closingScope = <<>> THEN "?"
                     ELSE W.closingScope[Len(W.closingScope)]
           closing == SubSeq(W.closingScope, 1, Len(W.closingScope) - 1)
       IN [W EXCEPT !.linePrefix = prefix,
                    !.closingScope = closing,
                    !.written = Append(@, <<"pop", closer, prefix, closing>>)]
  ) : W \in {old}})

\* The function returns: the two strings as they are then.
Return(old, function) ==
  TheValue({(
  [W EXCEPT !.written =
              Append(@, <<"return", function, W.linePrefix, W.closingScope>>)]
  ) : W \in {old}})

\* WriteArray without its WritePopScope.
WriteArray_noPop(W) == Return(WritePushScope(W, "}"), "WriteArray")

\* WriteArray(os, key, values)
WriteArray(W) == Return(WritePopScope(WritePushScope(W, "}")), "WriteArray")

\* WriteAliasFB(os, name_alias, targets)
WriteAliasFB(W, os, name_alias, targets) ==
  LET command == [W EXCEPT !.written =
                     Append(@, <<"Alias", os, name_alias, targets>>)]
  IN Return(WritePopScope(WritePushScope(command, "}")), "WriteAliasFB")

\* AddTargetAliasFB(alias, listDeps, config, excludeFromAll)
AddTargetAliasFB(old, alias, listDeps, config, excludeFromAll) ==
  TheValue({(
  IF alias \notin DOMAIN W.TargetAliasesFB
  THEN [W EXCEPT
          !.TargetAliasesFB =
             @ @@ (alias :> [Config |-> config, ListDeps |-> listDeps,
                             ExcludeFromAll |-> excludeFromAll]),
          !.TargetAliasesOrderedFB = Append(@, alias)]
  ELSE W
  ) : W \in {old}})

\* The Compiler block of a language without the backup in MapCompilersFB.
WriteCompilerBlock_noBackup(W, language, extrafile) ==
  LET command == [W EXCEPT !.written = Append(@, <<"Compiler", language>>)]
      pushed == WritePushScope(command, "}")
      files == IF extrafile THEN WriteArray(pushed) ELSE pushed
  IN WritePopScope(files)

\* The Compiler block of a language in WriteCompileFB: the command, its scope
\* with the executable (and the array of the extra files if there are any),
\* and the backup of the language in MapCompilersFB.
WriteCompilerBlock(W, language, extrafile) ==
  LET command == [W EXCEPT !.written = Append(@, <<"Compiler", language>>)]
      pushed == WritePushScope(command, "}")
      files == IF extrafile THEN WriteArray(pushed) ELSE pushed
  IN [WritePopScope(files) EXCEPT !.MapCompilersFB = @ \cup {language}]

useful_languages == <<<<"C">>, <<"C", "X", "X">>, <<"R", "C">>>>

\* The languages whose CMAKE_<lang>_COMPILER is defined in the makefile: with
\* MSVC the three useful languages, with GNU the languages C and CXX.
DefinedCompilers(id) ==
  IF id = "MSVC" THEN {<<"C">>, <<"C", "X", "X">>, <<"R", "C">>}
  ELSE {<<"C">>, <<"C", "X", "X">>}

RECURSIVE UsefulLoop(_, _, _, _)
UsefulLoop(old, id, extrafile, i) ==
  TheValue({(
  IF i > Len(useful_languages) THEN W
  ELSE LET useful_language == useful_languages[i]
       IN UsefulLoop(
            IF /\ useful_language \notin W.MapCompilersFB
               /\ useful_language \in DefinedCompilers(id)
            THEN WriteCompilerBlock(
                   W, useful_language,
                   extrafile /\ id = "MSVC"
                     /\ useful_language \in {<<"C">>, <<"C", "X", "X">>})
            ELSE W,
            id, extrafile, i + 1)
  ) : W \in {old}})

\* WriteCompileFB(config): the blocks of the useful languages that are not
\* written yet and have a compiler, the block of the linker language of the
\* target if it is not written yet, and the compiler information of the
\* target.  extrafile: the version of the MSVC compiler is one the function
\* lists extra files for.
WriteCompileFB(W, gt, id, extrafile) ==
  TheValue({
    WritePopScope(WritePushScopeStruct(
      IF gt.lang \notin useful.MapCompilersFB
      THEN WriteCompilerBlock(useful, gt.lang, FALSE)
      ELSE useful))
    : useful \in {UsefulLoop(W, id, extrafile, 1)}})

\* GetFullName(config) of a target: the file name CMake gives the output of a
\* target of this type, for MSVC name.exe, name.lib, name.dll and elsewhere
\* name, libname.a, libname.so.
FullName(name, type, id) ==
  IF id = "MSVC"
  THEN name \o (CASE type = "EXECUTABLE" -> <<".", "e", "x", "e">>
                  [] type = "STATIC_LIBRARY" -> <<".", "l", "i", "b">>
                  [] type = "SHARED_LIBRARY" -> <<".", "d", "l", "l">>
                  [] OTHER -> <<>>)
  ELSE CASE type = "EXECUTABLE" -> name
         [] type = "STATIC_LIBRARY" -> <<"l", "i", "b">> \o name \o <<".", "a">>
         [] type = "SHARED_LIBRARY" -> <<"l", "i", "b">> \o name \o <<".", "s", "o">>
         [] OTHER -> name

\* The file of a library target among the link dependencies of the targets
\* that link it (cmComputeLinkInformation::GetDepends): with MSVC the .lib of
\* the library, its import library if it is shared; elsewhere the library.
LinkFile(name, type, id) ==
  <<"x", "/">> \o (IF id = "MSVC" THEN name \o <<".", "l", "i", "b">>
                   ELSE FullName(name, type, id))

\* ComputeLinkDeps(linkLanguage, config): nothing for a static or an object
\* library, otherwise the files the target links.
ComputeLinkDeps(type, linked) ==
  IF type \in {"STATIC_LIBRARY", "OBJECT_LIBRARY"} THEN <<>> ELSE linked

\* GetShortOutputName(config): the full name up to its first '.', with
\* ReplaceDashWithUnderscores.
GetShortOutputName(gt) ==
  LET found == Find(gt.fullName, ".")
  IN ReplaceDashWithUnderscores(
       IF found # 0 THEN SubstrTo(gt.fullName, found - 1) ELSE gt.fullName)

\* The name without its "lib" prefix for the GNU and Clang compilers
\* (substr(0, 3) == "lib", substr(3)).
RemoveLibPrefix(name, id) ==
  IF id \in {"GNU", "Clang"} /\ Len(name) >= 3
       /\ SubstrTo(name, 3) = <<"l", "i", "b">>
  THEN SubstrFrom(name, 3) ELSE name

\* The loop of GetNameTargetLibraries over the link dependencies: a
\* dependency is listed when its node name is not empty and its ledger name
\* has an entry.
RECURSIVE GetNameTargetLibrariesLoop(_, _, _, _, _, _)
GetNameTargetLibrariesLoop(map, implicitDeps, isMultiConfig, config, id, listImplicitDeps) ==
  IF implicitDeps = <<>> THEN listImplicitDeps
  ELSE TheValue({
         GetNameTargetLibrariesLoop(
           map, Tail(implicitDeps), isMultiConfig, config, id,
           IF nameTarget # <<>> /\ nameInfoTargetGFB \in DOMAIN map
           THEN Append(listImplicitDeps, nameTarget)
           ELSE listImplicitDeps)
         : nameTarget \in
             {RemoveLibPrefix(
                GetNameTargetLibrary(Head(implicitDeps), isMultiConfig,
                                     config), id)},
           nameInfoTargetGFB \in
             {RemoveLibPrefix(GetNameFile(Head(implicitDeps)) \o config,
                              id)}})

\* GetNameTargetLibraries(isMultiConfig, config): the node names of the link
\* dependencies that have a ledger entry, without duplicates.
GetNameTargetLibraries(map, gt, isMultiConfig, config, id) ==
  RemoveDuplicateName(
    GetNameTargetLibrariesLoop(map, gt.linkDeps, isMultiConfig, config, id,
                               <<>>))

\* The block WriteObjectListFB writes for one object list: the struct with
\* the array of the input files in it.
WriteObjectListBlock(W) ==
  WritePopScope(WriteArray(WritePushScopeStruct(W)))

RECURSIVE WriteObjectListBlocks(_, _)
WriteObjectListBlocks(old, n) ==
  TheValue({(
  IF n = 0 THEN W ELSE WriteObjectListBlocks(WriteObjectListBlock(W), n - 1)
  ) : W \in {old}})

\* What WriteObjectListsFB(config, isObjectLibrary) writes and registers: a
\* block for each object list, and for an object library the alias of its
\* objects.
WriteObjectListsBlocks(W, gt, isMultiConfig, config, id, isObjectLibrary) ==
  TheValue({(
  LET objectList_name ==
        IF ~isMultiConfig THEN short_name \o <<"_", "o", "b", "j">>
        ELSE short_name \o <<"_", "o", "b", "j", "_">> \o config
      blocks == WriteObjectListBlocks(
                  W, Len(WriteObjectListsFB(gt.objectSources, id)))
  IN IF isObjectLibrary
     THEN AddTargetAliasFB(blocks, Quote(objectList_name \o <<"_", "d", "e", "p", "s">>),
                           <<Quote(objectList_name)>>, config, FALSE)
     ELSE blocks
  ) : short_name \in {GetShortOutputName(gt)}})

\* GetDefaultFileConfig(): the configuration whose executables get the alias
\* of the target's own name in multi-configuration mode.
DefaultFileConfig == <<"D", "e", "b", "u", "g">>

\* WriteExecutableFB(config)
WriteExecutableFB(W, map, gt, isMultiConfig, config, id) ==
  TheValue({(
  LET executable_name ==
        IF ~isMultiConfig THEN short_name \o <<"_", "e", "x", "e">>
        ELSE short_name \o <<"_", "e", "x", "e", "_">> \o config
      alias_name ==
        IF ~isMultiConfig THEN short_name \o <<"_", "e", "x", "e", "_", "d", "e", "p", "s">>
        ELSE short_name \o <<"_", "e", "x", "e", "_">> \o config \o <<"_", "d", "e", "p", "s">>
      struct == WritePopScope(WritePushScopeStruct(W))
      listImplicitDepsAlias ==
        [i \in 1..Len(implicitDeps) |-> Quote(implicitDeps[i] \o <<"_", "d", "e", "p", "s">>)]
      listDeps == ListCat(listImplicitDepsAlias, executable_name)
      deps == AddTargetAliasFB(struct, Quote(alias_name), listDeps, config,
                               FALSE)
  IN IF \/ id = "MSVC" /\ ~isMultiConfig
        \/ isMultiConfig /\ DefaultFileConfig = config
     THEN AddTargetAliasFB(deps, Quote(gt.name), <<Quote(executable_name)>>,
                           config, TRUE)
     ELSE deps
  ) : short_name \in {GetShortOutputName(gt)},
      implicitDeps \in {GetNameTargetLibraries(map, gt, isMultiConfig,
                                                   config, id)}})

\* WriteLibraryFB(config)
WriteLibraryFB(W, map, gt, isMultiConfig, config, id) ==
  TheValue({(
  LET suffix_lib == IF gt.type # "STATIC_LIBRARY" THEN <<"s", "l", "i", "b">> ELSE <<"l", "i", "b">>
      library_name ==
        IF ~isMultiConfig THEN short_name \o <<"_">> \o suffix_lib
        ELSE short_name \o <<"_">> \o suffix_lib \o <<"_">> \o config
      alias_name ==
        IF ~isMultiConfig THEN short_name \o <<"_">> \o suffix_lib \o <<"_", "d", "e", "p", "s">>
        ELSE short_name \o <<"_">> \o suffix_lib \o <<"_">> \o config \o <<"_", "d", "e", "p", "s">>
      struct == WritePopScope(WritePushScopeStruct(W))
      listImplicitDeps == [i \in 1..Len(implicitDeps) |-> Quote(implicitDeps[i])]
  IN IF gt.type = "STATIC_LIBRARY"
     THEN AddTargetAliasFB(struct, Quote(alias_name),
                           ListCat(listImplicitDeps, library_name), config,
                           FALSE)
     ELSE struct
  ) : short_name \in {GetShortOutputName(gt)},
      implicitDeps \in {GetNameTargetLibraries(map, gt, isMultiConfig,
                                                   config, id)}})

\* WriteDLLFB(config)
WriteDLLFB(W, map, gt, isMultiConfig, config, id) ==
  TheValue({(
  LET dll_name ==
        IF ~isMultiConfig THEN short_name \o <<"_", "l", "i", "b">>
        ELSE short_name \o <<"_", "l", "i", "b", "_">> \o config
      alias_name ==
        IF ~isMultiConfig THEN short_name \o <<"_", "l", "i", "b", "-", "d", "e", "p", "s">>
        ELSE short_name \o <<"_", "l", "i", "b", "_">> \o config \o <<"_", "d", "e", "p", "s">>
      library == WriteLibraryFB(W, map, gt, isMultiConfig, config, id)
      listImplicitDeps == [i \in 1..Len(implicitDeps) |-> Quote(implicitDeps[i])]
      struct == WritePopScope(WritePushScopeStruct(library))
  IN AddTargetAliasFB(struct, Quote(alias_name),
                      ListCat(listImplicitDeps, dll_name), config, FALSE)
  ) : short_name \in {GetShortOutputName(gt)},
      implicitDeps \in {GetNameTargetLibraries(map, gt, isMultiConfig,
                                                   config, id)}})

\* What WriteTargetFB(config) writes before it calls TargetTreatedFinish.
WriteTargetBlocks(W, map, gt, isMultiConfig, config, id, extrafile) ==
  TheValue({
    CASE gt.type = "EXECUTABLE" ->
           WriteExecutableFB(lists, map, gt, isMultiConfig, config, id)
      [] gt.type = "STATIC_LIBRARY" ->
           WriteLibraryFB(lists, map, gt, isMultiConfig, config, id)
      [] gt.type = "SHARED_LIBRARY" ->
           WriteDLLFB(lists, map, gt, isMultiConfig, config, id)
      [] OTHER -> lists
    : lists \in
        {IF gt.type \in {"EXECUTABLE", "STATIC_LIBRARY", "SHARED_LIBRARY",
                         "OBJECT_LIBRARY"}
         THEN WriteObjectListsBlocks(
                WriteCompileFB(W, gt, id, extrafile), gt, isMultiConfig,
                config, id, gt.type = "OBJECT_LIBRARY")
         ELSE WriteCompileFB(W, gt, id, extrafile)}})

\* WriteCustomCommandBuildFB(...): the Exec block of a custom command with the
\* given output, and its alias.  name_exec is the name of the output with the
\* configuration, every '-' replaced by one '_'.
WriteCustomCommandBuildFB(W, output, config, excludeFromAll) ==
  LET name == GetNameFile(output) \o config
      name_exec == [i \in 1..Len(name) |-> IF name[i] = "-" THEN "_" ELSE name[i]]
      exec == WritePopScope(WritePushScope(W, "}"))
  IN Return(AddTargetAliasFB(exec, Quote(name_exec \o <<"-", "d", "e", "p", "s">>),
                             <<Quote(name_exec)>>, config, excludeFromAll),
            "WriteCustomCommandBuildFB")

\* The configurations WriteTargetAliasesFB writes aliases for in
\* multi-configuration mode, in the order of the keys of its maps.
AliasConfigs ==
  <<<<"D", "e", "b", "u", "g">>,
    <<"R", "e", "l", "W", "i", "t", "h", "D", "e", "b", "I", "n", "f", "o">>,
    <<"R", "e", "l", "e", "a", "s", "e">>>>

\* The aliases of the list that belong to the configuration (all of them in
\* single-configuration mode) and are, or are not, excluded from all.
RECURSIVE AliasesOf(_, _, _, _, _)
AliasesOf(old, ordered, all, config, excluded) ==
  TheValue({(
  IF ordered = <<>> THEN <<>>
  ELSE LET ta == W.TargetAliasesFB[Head(ordered)]
       IN (IF (all \/ ta.Config = config) /\ ta.ExcludeFromAll = excluded
           THEN <<Head(ordered)>> ELSE <<>>)
            \o AliasesOf(W, Tail(ordered), all, config, excluded)
  ) : W \in {old}})

\* The loop over TargetAliasesOrderedFB that writes the aliases of a
\* configuration (all of them in single-configuration mode) to a stream.
RECURSIVE AliasLoop(_, _, _, _, _)
AliasLoop(old, ordered, os, all, config) ==
  TheValue({(
  IF ordered = <<>> THEN W
  ELSE LET ta == W.TargetAliasesFB[Head(ordered)]
       IN AliasLoop(IF all \/ ta.Config = config
                    THEN WriteAliasFB(W, os, Head(ordered), ta.ListDeps)
                    ELSE W,
                    Tail(ordered), os, all, config)
  ) : W \in {old}})

RECURSIVE AliasConfigLoop(_, _)
AliasConfigLoop(old, i) ==
  TheValue({(
  IF i > Len(AliasConfigs) THEN W
  ELSE AliasConfigLoop(
         AliasLoop(W, W.TargetAliasesOrderedFB, AliasConfigs[i], FALSE,
                   AliasConfigs[i]),
         i + 1)
  ) : W \in {old}})

RECURSIVE AliasAllLoop(_, _)
AliasAllLoop(old, i) ==
  TheValue({(
  IF i > Len(AliasConfigs) THEN W
  ELSE AliasAllLoop(
         WriteAliasFB(W, AliasConfigs[i], Quote(<<"a", "l", "l">>),
                      AliasesOf(W, W.TargetAliasesOrderedFB, FALSE,
                                AliasConfigs[i], FALSE)),
         i + 1)
  ) : W \in {old}})

RECURSIVE AliasOtherLoop(_, _)
AliasOtherLoop(old, i) ==
  TheValue({(
  IF i > Len(AliasConfigs) THEN W
  ELSE LET other == AliasesOf(W, W.TargetAliasesOrderedFB, FALSE,
                              AliasConfigs[i], TRUE)
       IN AliasOtherLoop(
            IF other # <<>>
            THEN WriteAliasFB(W, AliasConfigs[i], Quote(<<"o", "t", "h", "e", "r">>), other)
            ELSE W,
            i + 1)
  ) : W \in {old}})

\* WriteTargetAliasesFB(): in single-configuration mode every alias goes to
\* the common stream, then the alias of all and, if it is not empty, the
\* alias of the others; in multi-configuration mode the same is done for each
\* configuration of AliasConfigs on the stream of that configuration.
WriteTargetAliasesFB(old, isMultiConfig) ==
  TheValue({(
  IF ~isMultiConfig
  THEN LET each == AliasLoop(W, W.TargetAliasesOrderedFB, "common", TRUE, <<>>)
           all == WriteAliasFB(each, "common", Quote(<<"a", "l", "l">>),
                               AliasesOf(W, W.TargetAliasesOrderedFB, TRUE,
                                         <<>>, FALSE))
           other == AliasesOf(W, W.TargetAliasesOrderedFB, TRUE, <<>>, TRUE)
       IN IF other # <<>>
          THEN WriteAliasFB(all, "common", Quote(<<"o", "t", "h", "e", "r">>), other)
          ELSE all
  ELSE AliasOtherLoop(AliasAllLoop(AliasConfigLoop(W, 1), 1), 1)
  ) : W \in {old}})

\* ------------------------------------------- a pass that writes its files

\* Most custom commands the pass writes.
MaxCustomCommands == 2

WriteNames == {<<"a">>, <<"b">>}

WriteTypes ==
  {"EXECUTABLE", "STATIC_LIBRARY", "SHARED_LIBRARY", "OBJECT_LIBRARY"}

\* The linker languages of the targets: C, and a language that is not one of
\* the useful languages.
WriteLangs == {<<"C">>, <<"F">>}

MinSizeRel == <<"M", "i", "n", "S", "i", "z", "e", "R", "e", "l">>

\* The projects of the model: two targets of any type and language, of which
\* the target a can link the target b if b is a static or a shared library,
\* and a compiler version with or without extra files.
Projects ==
  {pr \in [targets : [WriteNames -> [type : WriteTypes, lang : WriteLangs]],
           link : {<<>>, <<<<"a">>, <<"b">>>>},
           extrafile : BOOLEAN] :
     pr.link # <<>> =>
       pr.targets[pr.link[2]].type \in {"STATIC_LIBRARY", "SHARED_LIBRARY"}}

\* The object sources of a target of the model: two sources with different
\* settings for the target a, one source for the others.
TargetSources(name) ==
  LET kinds == CHOOSE f \in [1..2 -> ObjKinds] : f[1].flags # f[2].flags
  IN IF name = <<"a">> THEN <<SourceOf(kinds[1], 1), SourceOf(kinds[2], 2)>>
     ELSE <<SourceOf(kinds[1], 1)>>

\* The generator target of the given name in the project.
GeneratorTarget(name) ==
  LET t == project.targets[name]
      linked ==
        IF project.link # <<>> /\ project.link[1] = name
        THEN <<LinkFile(project.link[2], project.targets[project.link[2]].type,
                        compilerId)>>
        ELSE <<>>
  IN [name |-> name,
      lang |-> t.lang,
      type |-> t.type,
      fullName |-> FullName(name, t.type, compilerId),
      linkDeps |-> ComputeLinkDeps(t.type, linked),
      objectSources |-> TargetSources(name)]

WriteState ==
  [MapCompilersFB |-> MapCompilersFB, linePrefix |-> linePrefix,
   closingScope |-> closingScope, written |-> written,
   TargetAliasesFB |-> TargetAliasesFB,
   TargetAliasesOrderedFB |-> TargetAliasesOrderedFB]

SetWriteState(old) ==
  \E W \in {old} :
    /\ MapCompilersFB' = W.MapCompilersFB
    /\ linePrefix' = W.linePrefix
    /\ closingScope' = W.closingScope
    /\ written' = W.written
    /\ TargetAliasesFB' = W.TargetAliasesFB
    /\ TargetAliasesOrderedFB' = W.TargetAliasesOrderedFB

\* What the invocations of WriteTargetFB listed in the trace from index i on
\* write, in the order of the trace: an invocation writes its blocks when it
\* is entered, calls TargetTreatedFinish, inside which the invocations of the
\* cascade run, and returns.
RECURSIVE WriteTraced(_, _, _, _)
WriteTraced(old, map, events, i) ==
  TheValue({(
  IF i > Len(events) THEN W
  ELSE WriteTraced(
         IF events[i][1] = "WriteTargetFB"
         THEN WriteTargetBlocks(W, map, map[events[i][2]].gt, IsMultiConfig,
                                map[events[i][2]].config, compilerId,
                                project.extrafile)
         ELSE IF events[i][1] = "return" THEN Return(W, "WriteTargetFB")
         ELSE W,
         map, events, i + 1)
  ) : W \in {old}})

\* The start of a pass over a project: nothing is registered or written.  The
\* compiler is MSVC or GNU (extra files are listed for MSVC only), the
\* generator has one configuration, or the two configurations Debug and
\* MinSizeRel in multi-configuration mode.
InitWrite ==
  /\ PassInit
  /\ probe = NoProbe
  /\ objectSources = <<>>
  /\ objectLists = <<>>
  /\ objWritten = FALSE
  /\ compilerId \in {"MSVC", "GNU"}
  /\ project \in Projects
  /\ project.extrafile => compilerId = "MSVC"
  /\ \/ IsMultiConfig = FALSE /\ GeneratorConfigs \in {{AliasConfigs[1]}, {MinSizeRel}}
     \/ IsMultiConfig = TRUE /\ GeneratorConfigs = {AliasConfigs[1], MinSizeRel}
  /\ MapCompilersFB = {}
  /\ linePrefix = <<>>
  /\ closingScope = <<>>
  /\ written = <<>>
  /\ TargetAliasesFB = NoAliases
  /\ TargetAliasesOrderedFB = <<>>

\* Generate(config) of a target of the project for a configuration, with what
\* every WriteTargetFB invoked in it writes.
GenerateAndWriteTarget ==
  /\ phase = "targets"
  /\ \E name \in WriteNames, config \in GeneratorConfigs :
       /\ <<name, config>> \notin visited
       /\ \E S \in {Generate(State, GeneratorTarget(name), config)} :
             /\ SetState(S)
             /\ SetWriteState(WriteTraced(WriteState, S.map, S.trace,
                                          Len(trace) + 1))
       /\ visited' = visited \cup {<<name, config>>}
  /\ UNCHANGED <<phase, warnings, failbit, objVars, probe, project,
                 IsMultiConfig, GeneratorConfigs>>

\* The local generator writes a custom command of the project with
\* WriteCustomCommandBuildFB, after the targets of the project; a command that
\* several targets use is written again.  In multi-configuration mode the
\* command is the one of the configuration MinSizeRel.
WriteCustomCommand ==
  /\ phase = "targets"
  /\ visited = WriteNames \X GeneratorConfigs
  /\ Cardinality({i \in 1..Len(written) :
                    written[i][1] = "return"
                      /\ written[i][2] = "WriteCustomCommandBuildFB"})
       < MaxCustomCommands
  /\ \E excludeFromAll \in BOOLEAN :
       SetWriteState(WriteCustomCommandBuildFB(
                       WriteState, <<"x", "/", "o", "-", "1", ".", "t">>,
                       IF IsMultiConfig THEN MinSizeRel
                       ELSE CHOOSE c \in GeneratorConfigs : TRUE,
                       excludeFromAll))
  /\ UNCHANGED <<passVars, objVars, probe, project, IsMultiConfig,
                 GeneratorConfigs>>

\* The rest of cmGlobalFastbuildGenerator::Generate: the last chance with what
\* it writes, the aliases, the warnings and the failed state of the streams.
FinishAndWriteAliases ==
  /\ phase = "targets"
  /\ \E S \in {lastChanceToTreatTargets(State)} :
        /\ SetState(S)
        /\ SetWriteState(
             WriteTargetAliasesFB(
               WriteTraced(WriteState, S.map, S.trace, Len(trace) + 1),
               IsMultiConfig))
  /\ warnings' = PrintAllTargetWithNbDeps(MapFastbuildInfoTargets')
  /\ failbit' = errorOccured'
  /\ phase' = "done"
  /\ UNCHANGED <<visited, objVars, probe, project, IsMultiConfig,
                 GeneratorConfigs>>

NextWrite ==
  \/ GenerateAndWriteTarget
  \/ WriteCustomCommand
  \/ FinishAndWriteAliases

SpecWrite == InitWrite /\ [][NextWrite]_vars

\* ---------------------------------------------------------------------------
\* Properties of what a pass writes (SpecWrite)
\* ---------------------------------------------------------------------------

\* The positions of `written' that hold the command of a Compiler block of
\* the language.
CompilerBlocks(language) ==
  {i \in 1..Len(written) : written[i] = <<"Compiler", language>>}

\* The languages a Compiler block may be about: the useful languages and the
\* linker languages of the targets.
BlockLanguages ==
  {useful_languages[i] : i \in 1..Len(useful_languages)} \cup WriteLangs

\* C21: over a pass the Compiler block of a language is written at most once,
\* however many targets and configurations use the language, and
\* MapCompilersFB holds a language exactly when its block has been written.
C21_CompilerBlocksOnce ==
  \A language \in BlockLanguages :
    /\ Cardinality(CompilerBlocks(language)) <= 1
    /\ language \in MapCompilersFB <=> CompilerBlocks(language) # {}

\* Two targets of the linker language F generated for two configurations, the
\* block of F and the blocks of the useful languages written.
C21_Witness ==
  /\ \A name \in WriteNames : project.targets[name].lang = <<"F">>
  /\ visited = WriteNames \X GeneratorConfigs
  /\ Cardinality(GeneratorConfigs) = 2
  /\ CompilerBlocks(<<"F">>) # {}
  /\ CompilerBlocks(<<"C">>) # {}
  /\ MapCompilersFB \subseteq BlockLanguages

\* The positions of `written' where WriteAliasFB writes the alias of the name.
AliasWrites(name_alias) ==
  {i \in 1..Len(written) :
     written[i][1] = "Alias" /\ written[i][3] = name_alias}

\* The stream the alias belongs to: the common stream in single-configuration
\* mode, otherwise the stream of its configuration.
OwningStream(name_alias) ==
  IF IsMultiConfig THEN TargetAliasesFB[name_alias].Config ELSE "common"

\* After WriteTargetAliasesFB every registered alias is written once, on its
\* stream and with its dependencies, and the aliases of a stream are written
\* in the order of their registration.
AliasesFlushedOnce ==
  phase = "done" =>
    /\ \A name_alias \in DOMAIN TargetAliasesFB :
         /\ Cardinality(AliasWrites(name_alias)) = 1
         /\ \A i \in AliasWrites(name_alias) :
              /\ written[i][2] = OwningStream(name_alias)
              /\ written[i][4] = TargetAliasesFB[name_alias].ListDeps
    /\ \A m, n \in 1..Len(TargetAliasesOrderedFB) :
         m < n /\ OwningStream(TargetAliasesOrderedFB[m])
                    = OwningStream(TargetAliasesOrderedFB[n])
           => \A i \in AliasWrites(TargetAliasesOrderedFB[m]),
                 j \in AliasWrites(TargetAliasesOrderedFB[n]) : i < j

\* A step keeps the record and the position of every alias registered before.
RegistrationsKept ==
  /\ \A name_alias \in DOMAIN TargetAliasesFB :
       /\ name_alias \in DOMAIN TargetAliasesFB'
       /\ TargetAliasesFB'[name_alias] = TargetAliasesFB[name_alias]
  /\ Len(TargetAliasesOrderedFB) <= Len(TargetAliasesOrderedFB')
  /\ SubSeq(TargetAliasesOrderedFB', 1, Len(TargetAliasesOrderedFB))
       = TargetAliasesOrderedFB

\* C22: every alias registered through AddTargetAliasFB is written by
\* WriteTargetAliasesFB exactly once, to the stream of its configuration and in
\* registration order, in single- and in multi-configuration mode and for
\* every configuration name; a second registration of an alias name leaves the
\* first record unchanged.
C22_AliasesFlushedOnce ==
  [](AliasesFlushedOnce) /\ [][RegistrationsKept]_vars

\* The name of the deps-alias WriteExecutableFB registers for the executable
\* target of the name and the configuration.
ExecutableDepsAlias(name, config) ==
  LET short_name == GetShortOutputName(GeneratorTarget(name))
  IN Quote(IF ~IsMultiConfig
           THEN short_name \o <<"_", "e", "x", "e", "_", "d", "e", "p", "s">>
           ELSE short_name \o <<"_", "e", "x", "e", "_">> \o config
                  \o <<"_", "d", "e", "p", "s">>)

\* The aliases of linked libraries that the deps-alias of an executable lists:
\* the elements of its ListDeps before the executable itself.
LibraryReferences(alias) ==
  LET listDeps == TargetAliasesFB[alias].ListDeps
  IN {listDeps[i] : i \in 1..(Len(listDeps) - 1)}

\* C25: every '<library>_deps' alias that the deps-alias of an executable
\* lists for a linked library target is the name of an alias record, the one
\* the generation of the library registers (WriteLibraryFB for a static,
\* WriteDLLFB for a shared library), in single- and multi-configuration mode.
C25_AliasReferencesResolve ==
  phase = "done" =>
    \A name \in WriteNames, config \in GeneratorConfigs :
      /\ project.targets[name].type = "EXECUTABLE"
      /\ ExecutableDepsAlias(name, config) \in DOMAIN TargetAliasesFB
      => LibraryReferences(ExecutableDepsAlias(name, config))
           \subseteq DOMAIN TargetAliasesFB

\* The two strings a step of `written' records: linePrefix and closingScope
\* after a WritePushScope, after a WritePopScope and at a return.
ScopeStrings(e) ==
  CASE e[1] = "push" -> <<e[2], e[3]>>
    [] e[1] = "pop" -> <<e[3], e[4]>>
    [] e[1] = "return" -> <<e[3], e[4]>>
    [] OTHER -> <<<<>>, <<>>>>

\* The steps of `written' from the i-th on, replayed on the stack of the
\* closers of the unmatched WritePushScope calls: no WritePopScope finds the
\* stack empty and each emits the closer on top of it.
RECURSIVE ScopesMatch(_, _)
ScopesMatch(i, stack) ==
  IF i > Len(written) THEN TRUE
  ELSE LET e == written[i]
       IN CASE e[1] = "push" ->
                 /\ e[3] # <<>>
                 /\ ScopesMatch(i + 1, Append(stack, e[3][Len(e[3])]))
            [] e[1] = "pop" ->
                 /\ stack # <<>>
                 /\ e[2] = stack[Len(stack)]
                 /\ ScopesMatch(i + 1, SubSeq(stack, 1, Len(stack) - 1))
            [] e[1] = "assert" -> FALSE
            [] OTHER -> ScopesMatch(i + 1, stack)

\* linePrefix and closingScope are equally long, in the state and in every
\* step written so far, and the scopes written so far match.
ScopesBalanced ==
  /\ Len(linePrefix) = Len(closingScope)
  /\ \A i \in 1..Len(written) :
       Len(ScopeStrings(written[i])[1]) = Len(ScopeStrings(written[i])[2])
  /\ ScopesMatch(1, <<>>)

\* The returns of the functions that `written' records.
Returns(functions) ==
  {i \in 1..Len(written) :
     written[i][1] = "return" /\ written[i][2] \in functions}

\* C29 as stated: linePrefix and closingScope are equally long in every state,
\* WritePopScope never finds them empty and emits the closer of the most
\* recent unmatched WritePushScope, and both are empty when WriteTargetFB,
\* WriteAliasFB, WriteArray or WriteCustomCommandBuildFB returns, nested
\* generations of the cascade included.
C29_ScopesEmptyAtEveryReturn ==
  /\ ScopesBalanced
  /\ \A i \in Returns({"WriteTargetFB", "WriteAliasFB", "WriteArray",
                       "WriteCustomCommandBuildFB"}) :
       written[i][3] = <<>> /\ written[i][4] = <<>>

\* C29, amended: the same, except that WriteArray, which is called inside the
\* scope of a block, returns with the two strings as they were when it was
\* entered, that is, as they were before its WritePushScope.
C29_ScopesBalanced ==
  /\ ScopesBalanced
  /\ \A i \in Returns({"WriteTargetFB", "WriteAliasFB",
                       "WriteCustomCommandBuildFB"}) :
       written[i][3] = <<>> /\ written[i][4] = <<>>
  /\ \A i \in Returns({"WriteArray"}) :
       /\ i > 2
       /\ written[i - 2][1] = "push"
       /\ written[i - 1][1] = "pop"
       /\ Append(written[i][3], "\t") = written[i - 2][2]
       /\ written[i][4] = SubSeq(written[i - 2][3], 1, Len(written[i - 2][3]) - 1)

\* A finished pass in which WriteArray returned inside the struct of an object
\* list, a custom command and the aliases were written, and a target was
\* generated by the cascade inside the WriteTargetFB of another.
C29_Witness ==
  /\ phase = "done"
  /\ \E i \in Returns({"WriteArray"}) : written[i][4] = <<"]">>
  /\ Returns({"WriteCustomCommandBuildFB"}) # {}
  /\ Returns({"WriteAliasFB"}) # {}
  /\ \E i, j, k \in 1..Len(trace) :
       /\ i < j /\ j < k
       /\ trace[i][1] = "WriteTargetFB"
       /\ trace[j][1] = "WriteTargetFB"
       /\ trace[k] = <<"return", trace[i][2]>>
       /\ \A m \in (i + 1)..(k - 1) : trace[m] # <<"return", trace[i][2]>>

====
